---- MODULE Spec2Model ----
(***************************************************************************)
(* A model of the LinearBot ticket-intake workflow: the SQLite tables      *)
(* (users, sessions, ticket_requests), the SessionManager, the input       *)
(* validator, and the Telegram handlers that drive a ticket draft from     *)
(* category selection to the Linear create call.                           *)
(*                                                                         *)
(* Time is counted in seconds.  A handler runs to completion in one step   *)
(* and the clock does not move inside it, except in SpecRace, where a      *)
(* handler gives way at each await of a SessionManager call.               *)
(*                                                                         *)
(* Specifications:                                                         *)
(*   Spec       every handler, the two timers and the clock, for one user  *)
(*              within one day;                                            *)
(*   SpecTitle  the creation flow with titles around the title rule;       *)
(*   SpecDup    the creation flow for two users while days pass;           *)
(*   SpecLimit  one user creating as many tickets as the documented daily  *)
(*              maximum, and one more;                                     *)
(*   SpecFlow   the creation flow with the bug template, the edit menu and *)
(*              descriptions around the description rule;                  *)
(*   SpecStatus the creation flow confirmed twice, the tracker answering   *)
(*              or failing;                                                *)
(*   SpecSM     the methods of the SessionManager called in any order;     *)
(*   SpecRace   handlers of one user that overlap at their awaits;         *)
(*   SpecDouble a complete draft confirmed by handlers that overlap.       *)
(***************************************************************************)
EXTENDS Integers, Sequences, FiniteSets, TLC

VARIABLES
  now,              \* the wall clock, in seconds
  users,            \* table users: a set of rows
  sessions,         \* table sessions: a set of rows
  ticket_requests,  \* table ticket_requests: a set of rows
  linearIssues,     \* the issues that exist in the Linear tracker
  last,             \* the event handled last and what it made visible
  inflight          \* the handlers that are suspended at an await

vars == <<now, users, sessions, ticket_requests, linearIssues, last, inflight>>

----------------------------------------------------------------------------
(* Bounds of the model.                                                    *)

\* at most this many rows are ever inserted into ticket_requests
MaxTickets == 1
\* the clock stops this many days after the start
MaxDay == 31
\* within a day the clock stops after this many minutes
MaxMinuteOfDay == 31

\* the users that talk to the bot
Users == {"u1"}

----------------------------------------------------------------------------
(* Program constants.                                                      *)

SecondsPerMinute == 60
SecondsPerDay == 86400
\* config.session.timeoutMinutes
timeoutMinutes == 30
\* findDuplicateTicket(title, dayLimit = 30)
dayLimit == 30
\* titleSchema .min(10) .max(100), descriptionSchema .min(10)
TitleMin == 10
TitleMax == 100
DescriptionMin == 10

\* The config object: the rateLimit block is commented out, so the object
\* has no rateLimit property.
config == [session |-> [timeoutMinutes |-> timeoutMinutes]]

\* enum TicketLabel, enum TicketPriority, enum TicketStatus
TicketLabel == {"Bug", "Improvement", "Request"}
TicketPriority == {"Urgent", "High", "Medium", "Low"}
TicketStatus == {"draft", "submitted", "created", "failed"}
\* CHECK (label IN (...)) and CHECK (priority IN (...)) of ticket_requests
DbLabels == {"Bug", "Improvement", "Design", "Feature", "Other"}
DbPriorities == {"Urgent", "High", "Medium", "Low"}

----------------------------------------------------------------------------
(* Text.  A string is a sequence of character codes.                       *)

Rep(c, n) == [i \in 1..n |-> c]

\* /[\x00-\x1F\x7F]/
IsControl(c) == c \in (0..31) \cup {127}
\* what String.prototype.trim removes and what \s matches (the codes used here)
IsWhitespace(c) == c \in {9, 10, 11, 12, 13, 32, 160}
\* the character class [a-zA-Z0-9\s\-_.,!]
IsAllowedTitleChar(c) ==
  \/ c \in 97..122
  \/ c \in 65..90
  \/ c \in 48..57
  \/ IsWhitespace(c)
  \/ c \in {45, 95, 46, 44, 33}

RECURSIVE TrimStart(_)
TrimStart(s) ==
  IF s # <<>> /\ IsWhitespace(Head(s)) THEN TrimStart(Tail(s)) ELSE s

RECURSIVE TrimEnd(_)
TrimEnd(s) ==
  IF s # <<>> /\ IsWhitespace(s[Len(s)])
  THEN TrimEnd(SubSeq(s, 1, Len(s) - 1))
  ELSE s

\* String.prototype.trim
Trim(s) == TrimEnd(TrimStart(s))

StripControl(s) == SelectSeq(s, LAMBDA c : ~IsControl(c))

\* sanitizeInput: input.replace(/[\x00-\x1F\x7F]/g, '').trim()
sanitizeInput(input) == Trim(StripControl(input))

\* A variant of validateTitle without the .max(100) rule.
validateTitleNoMax(title) ==
  IF title = <<>> THEN [isValid |-> FALSE, error |-> "string.empty"]
  ELSE IF Len(title) < TitleMin
    THEN [isValid |-> FALSE, error |-> "Title must be at least 10 characters long"]
  ELSE IF \E i \in 1..Len(title) : ~IsAllowedTitleChar(title[i])
    THEN [isValid |-> FALSE, error |-> "Title can only contain letters, numbers, spaces, and the following characters: - _ . , !"]
  ELSE [isValid |-> TRUE, error |-> ""]

\* titleSchema.validate: Joi reports the first failing rule only; a string
\* schema rejects the empty string before any other rule.
validateTitle(title) ==
  IF title = <<>> THEN [isValid |-> FALSE, error |-> "string.empty"]
  ELSE IF Len(title) < TitleMin
    THEN [isValid |-> FALSE, error |-> "Title must be at least 10 characters long"]
  ELSE IF Len(title) > TitleMax
    THEN [isValid |-> FALSE, error |-> "Title must not exceed 100 characters"]
  ELSE IF \E i \in 1..Len(title) : ~IsAllowedTitleChar(title[i])
    THEN [isValid |-> FALSE, error |-> "Title can only contain letters, numbers, spaces, and the following characters: - _ . , !"]
  ELSE [isValid |-> TRUE, error |-> ""]

\* A variant of validateDescription with a minimum of nine characters.
validateDescriptionMinNine(description) ==
  IF description = <<>> THEN [isValid |-> FALSE, error |-> "string.empty"]
  ELSE IF Len(description) < DescriptionMin - 1
    THEN [isValid |-> FALSE, error |-> "Description must be at least 10 characters long."]
  ELSE [isValid |-> TRUE, error |-> ""]

\* descriptionSchema.validate
validateDescription(description) ==
  IF description = <<>> THEN [isValid |-> FALSE, error |-> "string.empty"]
  ELSE IF Len(description) < DescriptionMin
    THEN [isValid |-> FALSE, error |-> "Description must be at least 10 characters long."]
  ELSE [isValid |-> TRUE, error |-> ""]

----------------------------------------------------------------------------
(* The SQLite tables.  A nullable column holds {} (NULL) or {v}.           *)

TheOne(S) == CHOOSE x \in S : TRUE

\* strings compare character by character, a proper prefix being smaller
RECURSIVE LexLess(_, _)
LexLess(a, b) ==
  IF b = <<>> THEN FALSE
  ELSE IF a = <<>> THEN TRUE
  ELSE IF Head(a) # Head(b) THEN Head(a) < Head(b)
  ELSE LexLess(Tail(a), Tail(b))

\* 'YYYY-MM-DD HH:MM:SS' of an instant, as the day and the second of the day
SqlDateTime(t) == <<t \div SecondsPerDay, t % SecondsPerDay>>
\* date('now', '-N days'): 'YYYY-MM-DD'
SqlDateMinusDays(t, n) == <<(t \div SecondsPerDay) - n>>

\* getUserById
getUserById(tbl, u) == {r \in tbl : r.telegram_user_id = u}

\* createUser: tickets_created_today and total_tickets_created DEFAULT 0
createUser(tbl, u) ==
  tbl \cup {[telegram_user_id |-> u, is_authenticated |-> TRUE,
             tickets_created_today |-> 0, total_tickets_created |-> 0]}

\* updateUserAuthentication
updateUserAuthentication(tbl, u, b) ==
  {IF r.telegram_user_id = u THEN [r EXCEPT !.is_authenticated = b] ELSE r : r \in tbl}

\* incrementUserTicketCount
incrementUserTicketCount(tbl, u) ==
  {IF r.telegram_user_id = u
   THEN [r EXCEPT !.tickets_created_today = @ + 1, !.total_tickets_created = @ + 1]
   ELSE r : r \in tbl}

\* A variant of resetDailyTicketCounts that zeroes the lifetime total too.
dbResetAllTicketCounts(tbl) ==
  {[r EXCEPT !.tickets_created_today = 0, !.total_tickets_created = 0] : r \in tbl}

\* Database.resetDailyTicketCounts
dbResetDailyTicketCounts(tbl) == {[r EXCEPT !.tickets_created_today = 0] : r \in tbl}

\* getUserTicketsToday
getUserTicketsToday(tbl, u) ==
  IF getUserById(tbl, u) = {} THEN 0 ELSE TheOne(getUserById(tbl, u)).tickets_created_today

\* generateId: a fresh id
generateId(tbl) == Cardinality(tbl) + 1

\* Map 'Request' to 'Other' for database compatibility
dbLabel(label) == IF label = "Request" THEN "Other" ELSE label

\* Whether the INSERT of createTicket passes the table's constraints:
\* NOT NULL on title, description, label, priority; the two CHECKs; the
\* foreign key on telegram_user_id.  Each argument is {} (undefined) or {v}.
insertTicketOk(usersTbl, u, title, description, label, priority) ==
  /\ title # {} /\ description # {} /\ label # {} /\ priority # {}
  /\ dbLabel(TheOne(label)) \in DbLabels
  /\ TheOne(priority) \in DbPriorities
  /\ getUserById(usersTbl, u) # {}

\* The row createTicket inserts; created_at DEFAULT CURRENT_TIMESTAMP
ticketRow(tbl, u, title, description, label, priority, status) ==
  [id |-> generateId(tbl), telegram_user_id |-> u,
   title |-> TheOne(title), description |-> TheOne(description),
   label |-> dbLabel(TheOne(label)), priority |-> TheOne(priority),
   status |-> status, linear_ticket_id |-> {}, linear_ticket_url |-> {},
   created_at |-> now, submitted_at |-> {}]

\* A variant of updateTicketStatus that writes the status only.
updateTicketStatusOnly(tbl, id, status, linearTicketId, linearTicketUrl) ==
  {IF r.id # id THEN r ELSE [r EXCEPT !.status = status] : r \in tbl}

\* updateTicketStatus: the id and url are written only when both are given
updateTicketStatus(tbl, id, status, linearTicketId, linearTicketUrl) ==
  {IF r.id # id THEN r
   ELSE IF linearTicketId # {} /\ linearTicketUrl # {}
     THEN [r EXCEPT !.status = status, !.linear_ticket_id = linearTicketId,
                    !.linear_ticket_url = linearTicketUrl, !.submitted_at = {now}]
     ELSE [r EXCEPT !.status = status] : r \in tbl}

\* A variant of findDuplicateTicket with a window of nine days.
findDuplicateTicketNineDays(tbl, title) ==
  \E r \in tbl :
    /\ r.title = title
    /\ ~LexLess(SqlDateTime(r.created_at), SqlDateMinusDays(now, 9))

\* findDuplicateTicket: title = ? AND created_at >= date('now', '-30 days')
findDuplicateTicket(tbl, title) ==
  \E r \in tbl :
    /\ r.title = title
    /\ ~LexLess(SqlDateTime(r.created_at), SqlDateMinusDays(now, dayLimit))

\* A variant of saveSession that adds the row and keeps the old one.
saveSessionInsert(tbl, session) ==
  tbl \cup {[user_id |-> session.userId, state |-> session.state,
             ticket_data |-> session.ticketData,
             last_activity |-> session.lastActivity, created_at |-> session.createdAt]}

\* saveSession: INSERT OR REPLACE on the primary key user_id
saveSession(tbl, session) ==
  {r \in tbl : r.user_id # session.userId}
  \cup {[user_id |-> session.userId, state |-> session.state,
         ticket_data |-> session.ticketData,
         last_activity |-> session.lastActivity, created_at |-> session.createdAt]}

\* Database.getSession: {} for no row
dbGetSession(tbl, u) ==
  {[userId |-> r.user_id, state |-> r.state, ticketData |-> r.ticket_data,
    lastActivity |-> r.last_activity, createdAt |-> r.created_at] :
   r \in {x \in tbl : x.user_id = u}}

\* A variant of Database.deleteSession without the WHERE clause.
dbDeleteSessionAll(tbl, u) == {}

\* Database.deleteSession
dbDeleteSession(tbl, u) == {r \in tbl : r.user_id # u}

\* cleanupExpiredSessions:
\* datetime(last_activity) < datetime('now', '-N minutes')
cleanupExpiredSessions(tbl, minutes) ==
  {r \in tbl : ~(r.last_activity < now - minutes * SecondsPerMinute)}

----------------------------------------------------------------------------
(* A handler is a function from worlds to worlds.  A world is the stored   *)
(* state the handler reads and writes together with what the handler has   *)
(* made visible so far: the reply sent, the Linear API calls made, the     *)
(* audit rows written, and whether an exception is propagating (and the    *)
(* message of the Error thrown, where the code gives it one).  failWrite   *)
(* is the storage fault the handler meets: 0 for none, n for the n-th      *)
(* saveSession of its updateSession calls being rejected by SQLite.        *)

World ==
  [sessions |-> sessions, users |-> users, tickets |-> ticket_requests,
   linear |-> linearIssues, reply |-> "none", calls |-> <<>>, audit |-> <<>>,
   thrown |-> FALSE, error |-> "", failWrite |-> 0]

Throw(w) == [w EXCEPT !.thrown = TRUE]
\* throw new Error(message)
ThrowError(w, message) == [w EXCEPT !.thrown = TRUE, !.error = message]
Reply(w, text) == IF w.thrown THEN w ELSE [w EXCEPT !.reply = text]
\* addAuditLog; audit_log.user_id REFERENCES users(telegram_user_id)
addAuditLog(w, u, action) ==
  IF w.thrown THEN w
  ELSE IF getUserById(w.users, u) = {} THEN Throw(w)
  ELSE [w EXCEPT !.audit = Append(@, <<u, action>>)]

\* Session['ticketData'] values: a function from the keys that are set
EmptyData == [k \in {} |-> TRUE]
\* session.ticketData.<key>: {} for undefined
Field(data, key) == IF key \in DOMAIN data THEN {data[key]} ELSE {}
\* JavaScript truthiness of session.ticketData.<key>, a string
TruthyString(data, key) == key \in DOMAIN data /\ data[key] # ""
\* JavaScript truthiness of session.ticketData.<key>, a boolean
TruthyFlag(data, key) == key \in DOMAIN data /\ data[key] = TRUE

----------------------------------------------------------------------------
(* SessionManager                                                          *)

\* A variant of the expiry test that also expires a session whose age is
\* exactly the timeout.
isExpiredAtTimeout(session) ==
  (now - session.lastActivity) >= timeoutMinutes * SecondsPerMinute

\* minutesSinceActivity > this.timeoutMinutes
isExpired(session) ==
  (now - session.lastActivity) > timeoutMinutes * SecondsPerMinute

\* SessionManager.deleteSession
deleteSession(w, u) ==
  IF w.thrown THEN w
  ELSE addAuditLog([w EXCEPT !.sessions = dbDeleteSession(@, u)], u, "SESSION_DELETED")

\* SessionManager.createSession
createSession(w, u) ==
  IF w.thrown THEN w
  ELSE IF getUserById(w.users, u) = {} THEN Throw(w)
  ELSE addAuditLog(
         [w EXCEPT !.sessions =
            saveSession(@, [userId |-> u, state |-> "IDLE", ticketData |-> EmptyData,
                            lastActivity |-> now, createdAt |-> now])],
         u, "SESSION_CREATED")

\* SessionManager.getSession: the value returned, {} for null
getSession(w, u) ==
  {s \in dbGetSession(w.sessions, u) : ~isExpired(s)}

\* A variant of SessionManager.getSession that records the read as activity.
afterGetSessionTouch(w, u) ==
  IF w.thrown THEN w
  ELSE IF \E s \in dbGetSession(w.sessions, u) : isExpired(s)
    THEN deleteSession(w, u)
    ELSE [w EXCEPT !.sessions =
            {IF r.user_id = u THEN [r EXCEPT !.last_activity = now] ELSE r : r \in @}]

\* SessionManager.getSession: the world it leaves (an expired row is deleted)
afterGetSession(w, u) ==
  IF w.thrown THEN w
  ELSE IF \E s \in dbGetSession(w.sessions, u) : isExpired(s)
    THEN deleteSession(w, u)
    ELSE w

\* A variant of SessionManager.updateSession that does not refresh
\* lastActivity.
updateSessionKeepActivity(w, u, updates) ==
  IF w.thrown THEN w
  ELSE IF getSession(w, u) = {}
    THEN ThrowError(afterGetSession(w, u), "Session not found")
  ELSE [w EXCEPT !.sessions = saveSession(@, updates @@ TheOne(getSession(w, u)))]

\* SessionManager.updateSession; updates is a function from the fields given.
\* The promise of saveSession is rejected when SQLite fails the statement.
updateSession(w, u, updates) ==
  IF w.thrown THEN w
  ELSE IF getSession(w, u) = {}
    THEN ThrowError(afterGetSession(w, u), "Session not found")
  ELSE IF w.failWrite = 1 THEN ThrowError([w EXCEPT !.failWrite = 0], "SQLITE_ERROR")
  ELSE [w EXCEPT !.sessions =
          saveSession(@, ("lastActivity" :> now) @@ updates @@ TheOne(getSession(w, u))),
          !.failWrite = IF @ > 0 THEN @ - 1 ELSE 0]

\* SessionManager.updateSessionState
updateSessionState(w, u, state) == updateSession(w, u, "state" :> state)

\* A variant of SessionManager.updateTicketData that stores the given
\* fields as the whole draft.
updateTicketDataReplace(w, u, data) ==
  IF w.thrown THEN w
  ELSE IF getSession(w, u) = {}
    THEN ThrowError(afterGetSession(w, u), "Session not found")
  ELSE updateSession(w, u, "ticketData" :> data)

\* SessionManager.updateTicketData
updateTicketData(w, u, data) ==
  IF w.thrown THEN w
  ELSE IF getSession(w, u) = {}
    THEN ThrowError(afterGetSession(w, u), "Session not found")
  ELSE updateSession(w, u,
         "ticketData" :> (data @@ TheOne(getSession(w, u)).ticketData))

\* the body of the setInterval callback of startCleanupInterval
cleanupTick(w) ==
  [w EXCEPT !.sessions = cleanupExpiredSessions(@, timeoutMinutes)]

----------------------------------------------------------------------------
(* CommandHandler                                                          *)

\* A variant of CommandHandler.handleStart that keeps a session the user
\* already has.
handleStartKeepSession(w, u) ==
  LET registered ==
        IF getUserById(w.users, u) = {}
        THEN addAuditLog([w EXCEPT !.users = createUser(@, u)], u, "USER_REGISTERED")
        ELSE [w EXCEPT !.users = updateUserAuthentication(@, u, TRUE)]
  IN Reply(IF dbGetSession(w.sessions, u) = {} THEN createSession(registered, u)
           ELSE registered,
           "welcome")

\* CommandHandler.handleStart
handleStart(w, u) ==
  LET registered ==
        IF getUserById(w.users, u) = {}
        THEN addAuditLog([w EXCEPT !.users = createUser(@, u)], u, "USER_REGISTERED")
        ELSE [w EXCEPT !.users = updateUserAuthentication(@, u, TRUE)]
  IN Reply(createSession(deleteSession(registered, u), u), "welcome")

\* A variant of CommandHandler.handleCancel that resets the state and keeps
\* the draft.
handleCancelCommandKeepDraft(w, u) ==
  LET session == getSession(w, u)
      w1 == afterGetSession(w, u)
      body ==
        IF session = {} \/ TheOne(session).state = "IDLE"
        THEN Reply(w1, "No active operation to cancel.")
        ELSE addAuditLog(
               Reply(updateSession(w1, u, "state" :> "IDLE"), "Operation cancelled."),
               u, "TICKET_CANCELLED")
  IN IF body.thrown THEN [body EXCEPT !.thrown = FALSE, !.reply = "error"] ELSE body

\* CommandHandler.handleCancel (the /cancel command)
handleCancelCommand(w, u) ==
  LET session == getSession(w, u)
      w1 == afterGetSession(w, u)
      body ==
        IF session = {} \/ TheOne(session).state = "IDLE"
        THEN Reply(w1, "No active operation to cancel.")
        ELSE addAuditLog(
               Reply(updateSession(w1, u, [state |-> "IDLE", ticketData |-> EmptyData]),
                     "Operation cancelled."),
               u, "TICKET_CANCELLED")
  IN IF body.thrown THEN [body EXCEPT !.thrown = FALSE, !.reply = "error"] ELSE body

\* CommandHandler.handleTickets, reached from the cmd:tickets button
handleTickets(w, u) ==
  IF getUserById(w.users, u) = {} \/ ~TheOne(getUserById(w.users, u)).is_authenticated
  THEN Reply(w, "auth_required")
  ELSE LET body == Reply(updateSession(w, u, [state |-> "VIEWING_ISSUES",
                                              ticketData |-> ("page" :> 0)]),
                         "issue_list")
       IN IF body.thrown
          THEN [body EXCEPT !.thrown = FALSE, !.reply = "Failed to fetch tickets."]
          ELSE body

----------------------------------------------------------------------------
(* CallbackHandler: the ticket-creation flow                               *)

\* CallbackHandler.handleAction, case 'create_ticket'.  Reading
\* config.rateLimit.maxTicketsPerDay throws a TypeError when config has no
\* rateLimit property.
handleAction(w, u) ==
  IF "rateLimit" \notin DOMAIN config THEN Throw(w)
  ELSE IF getUserTicketsToday(w.users, u) >= config.rateLimit.maxTicketsPerDay
    THEN Reply(w, "daily_limit_reached")
    ELSE Reply(updateSessionState(w, u, "AWAITING_CATEGORY"), "select_category")

\* CallbackHandler.handleCategorySelection
handleCategorySelection(w, u, category) ==
  Reply(updateSessionState(updateTicketData(w, u, "label" :> category),
                           u, "AWAITING_TITLE"),
        "category_selected")

\* getTemplateKeyboard(label) is defined
hasTemplate(label) == label = "Bug"

\* CallbackHandler.handleLabelSelection
handleLabelSelection(w, u, label) ==
  Reply(updateSessionState(updateTicketData(w, u, "label" :> label),
                           u, "AWAITING_PRIORITY"),
        IF hasTemplate(label) THEN "offer_template" ELSE "select_priority")

\* CallbackHandler.handlePrioritySelection
handlePrioritySelection(w, u, priority) ==
  LET w1 == updateSessionState(updateTicketData(w, u, "priority" :> priority),
                               u, "AWAITING_CONFIRMATION")
  IN IF w1.thrown \/ getSession(w1, u) = {} THEN w1 ELSE Reply(w1, "summary")

\* A variant of LinearService.createTicket that calls createIssue a second
\* time when the first call fails.
linearCreateTicketRetry(w, ok) ==
  IF w.thrown THEN w
  ELSE LET called == [w EXCEPT !.calls = Append(@, "createIssue")]
       IN IF ok
          THEN [called EXCEPT !.linear = @ \cup {Cardinality(@) + 1}]
          ELSE Throw([called EXCEPT !.calls = Append(@, "createIssue")])

\* LinearService.createTicket: one createIssue call.  ok says whether the
\* tracker created the issue; the issue gets a fresh id.
linearCreateTicket(w, ok) ==
  IF w.thrown THEN w
  ELSE LET called == [w EXCEPT !.calls = Append(@, "createIssue")]
       IN IF ok
          THEN [called EXCEPT !.linear = @ \cup {Cardinality(@) + 1}]
          ELSE Throw(called)

\* the id and the url of the issue the last createIssue call returned
linearTicketId(w) == <<"id", Cardinality(w.linear)>>
linearTicketUrl(w) == <<"url", Cardinality(w.linear)>>

\* this.db.createTicket(...) of handleConfirmation: throws when the INSERT
\* violates a constraint
dbCreateTicket(w, u, data) ==
  IF w.thrown THEN w
  ELSE IF insertTicketOk(w.users, u, Field(data, "title"), Field(data, "description"),
                         Field(data, "label"), Field(data, "priority"))
    THEN [w EXCEPT !.tickets =
            @ \cup {ticketRow(@, u, Field(data, "title"), Field(data, "description"),
                              Field(data, "label"), Field(data, "priority"),
                              "submitted")}]
    ELSE Throw(w)

\* the try block of handleConfirmation, case 'yes'
confirmTry(w, u, data, ok) ==
  LET ticketRecordId == generateId(w.tickets)
      w1 == dbCreateTicket(w, u, data)
      w2 == linearCreateTicket(w1, ok)
      w3 == IF w2.thrown THEN w2
            ELSE [w2 EXCEPT !.tickets =
                    updateTicketStatus(@, ticketRecordId, "created",
                                       {linearTicketId(w2)}, {linearTicketUrl(w2)})]
      w4 == IF w3.thrown THEN w3
            ELSE [w3 EXCEPT !.users = incrementUserTicketCount(@, u)]
      w5 == updateSession(w4, u, [state |-> "IDLE", ticketData |-> EmptyData])
  IN addAuditLog(Reply(w5, "ticket_created"), u, "TICKET_CREATED")

\* A variant of the catch block that marks every ticket record failed.
confirmCatchMarkAll(w, data) ==
  Reply([w EXCEPT !.thrown = FALSE,
                  !.tickets = {[r EXCEPT !.status = "failed"] : r \in @}],
        "create_failed")

\* the catch block of handleConfirmation, case 'yes'
confirmCatch(w, data) ==
  LET caught == [w EXCEPT !.thrown = FALSE]
      marked == IF "id" \in DOMAIN data
                THEN [caught EXCEPT !.tickets =
                        updateTicketStatus(@, data["id"], "failed", {}, {})]
                ELSE caught
  IN Reply(marked, "create_failed")

\* CallbackHandler.handleConfirmation
handleConfirmation(w, u, action, ok) ==
  LET session == getSession(w, u)
      w1 == afterGetSession(w, u)
  IN IF session = {} THEN w1
     ELSE CASE action = "yes" ->
                 LET data == TheOne(session).ticketData
                     tried == confirmTry(w1, u, data, ok)
                 IN IF tried.thrown THEN confirmCatch(tried, data) ELSE tried
            [] action = "edit" -> Reply(w1, "edit_menu")
            [] action = "cancel" ->
                 Reply(updateSession(w1, u, [state |-> "IDLE", ticketData |-> EmptyData]),
                       "creation_cancelled")
            [] OTHER -> w1

\* CallbackHandler.handleEdit
handleEdit(w, u, field) ==
  LET session == getSession(w, u)
      w1 == afterGetSession(w, u)
  IN IF session = {} THEN w1
     ELSE CASE field = "title" ->
                 Reply(updateSessionState(w1, u, "AWAITING_TITLE"), "enter_title")
            [] field = "description" ->
                 Reply(updateSessionState(w1, u, "AWAITING_DESCRIPTION"), "enter_description")
            [] field = "label" ->
                 Reply(updateSessionState(w1, u, "AWAITING_LABEL"), "select_label")
            [] field = "priority" ->
                 Reply(updateSessionState(w1, u, "AWAITING_PRIORITY"), "select_priority")
            [] field = "back" ->
                 Reply(updateSessionState(w1, u, "AWAITING_CONFIRMATION"), "summary")
            [] OTHER -> w1

\* CallbackHandler.handleTemplate
handleTemplate(w, u, action) ==
  IF action = "skip" THEN Reply(w, "select_priority")
  ELSE LET session == getSession(w, u)
           w1 == afterGetSession(w, u)
       IN IF session = {} THEN w1
          ELSE Reply(updateTicketData(w1, u, "awaitingTemplate" :> TRUE), "template")

----------------------------------------------------------------------------
(* CallbackHandler: operations on an existing issue.  lookup is what a     *)
(* read of the tracker gives: "ok", "none" (nothing found) or "error".     *)

\* LinearService.getIssue returns null when the request fails
getIssue(lookup) == IF lookup = "error" THEN "none" ELSE lookup

\* handleUpdateStatus / handleAssignIssue / handleAddComment: enter the
\* operation state named by state with the issue id in the session
enterOperation(w, u, state, issueId, lookup) ==
  IF lookup = "none" THEN Reply(w, "Issue not found.")
  ELSE LET body == IF lookup = "error" THEN Throw(w)
                   ELSE updateSession(Reply(w, "operation_prompt"), u,
                                      [state |-> state, ticketData |-> ("issueId" :> issueId)])
       IN IF body.thrown
          THEN [body EXCEPT !.thrown = FALSE, !.reply = "operation_failed"]
          ELSE body

\* CallbackHandler.handleSetStatus
handleSetStatus(w, u, lookup, success) ==
  LET session == getSession(w, u)
      w1 == afterGetSession(w, u)
      body ==
        IF session = {} \/ ~TruthyString(TheOne(session).ticketData, "issueId")
        THEN Reply(w1, "Session expired. Please try again.")
        ELSE IF lookup = "error" THEN Throw(w1)
        ELSE IF lookup = "none" THEN Reply(w1, "Status not found.")
        ELSE updateSession(
               Reply([w1 EXCEPT !.calls = Append(@, "updateIssue")],
                     IF success THEN "status_updated" ELSE "Failed to update status."),
               u, [state |-> "IDLE", ticketData |-> EmptyData])
  IN IF body.thrown
     THEN [body EXCEPT !.thrown = FALSE, !.reply = "Failed to update status."]
     ELSE body

\* CallbackHandler.handleAssignTo; lookup is the listUsers call made after
\* a successful update
handleAssignTo(w, u, lookup, success) ==
  LET session == getSession(w, u)
      w1 == afterGetSession(w, u)
      body ==
        IF session = {} \/ ~TruthyString(TheOne(session).ticketData, "issueId")
        THEN Reply(w1, "Session expired. Please try again.")
        ELSE LET called == [w1 EXCEPT !.calls = Append(@, "updateIssue")]
             IN IF success /\ lookup = "error" THEN Throw(called)
                ELSE updateSession(
                       Reply(called, IF success THEN "assigned"
                                     ELSE "Failed to update assignee."),
                       u, [state |-> "IDLE", ticketData |-> EmptyData])
  IN IF body.thrown
     THEN [body EXCEPT !.thrown = FALSE, !.reply = "Failed to update assignee."]
     ELSE body

\* A variant of CallbackHandler.handleCancel that counts a ticket.
handleCancelOperationCounting(w, u) ==
  Reply(updateSession([w EXCEPT !.users = incrementUserTicketCount(@, u)],
                      u, [state |-> "IDLE", ticketData |-> EmptyData]),
        "Operation cancelled.")

\* CallbackHandler.handleCancel (cancel_status_update, cancel_assign)
handleCancelOperation(w, u) ==
  Reply(updateSession(w, u, [state |-> "IDLE", ticketData |-> EmptyData]),
        "Operation cancelled.")

\* CallbackHandler.handleCallback: the authentication check, the dispatch
\* on the callback data (action, value) and the catch around it.  ok,
\* lookup and success are what the tracker answers if it is called.
handleCallback(w, u, action, value, ok, lookup, success) ==
  IF getUserById(w.users, u) = {} \/ ~TheOne(getUserById(w.users, u)).is_authenticated
  THEN Reply(w, "auth_required")
  ELSE LET body ==
             CASE action = "action" /\ value = "create_ticket" -> handleAction(w, u)
               [] action = "category" -> handleCategorySelection(w, u, value)
               [] action = "label" -> handleLabelSelection(w, u, value)
               [] action = "priority" -> handlePrioritySelection(w, u, value)
               [] action = "confirm" -> handleConfirmation(w, u, value, ok)
               [] action = "edit" -> handleEdit(w, u, value)
               [] action = "template" -> handleTemplate(w, u, value)
               [] action = "cmd" /\ value = "tickets" -> handleTickets(w, u)
               [] action = "update_status" ->
                    enterOperation(w, u, "UPDATING_STATUS", value, getIssue(lookup))
               [] action = "assign_issue" ->
                    enterOperation(w, u, "ASSIGNING_ISSUE", value, lookup)
               [] action = "add_comment" ->
                    enterOperation(w, u, "ADDING_COMMENT", value, getIssue(lookup))
               [] action = "set_status" -> handleSetStatus(w, u, lookup, success)
               [] action = "assign_to" -> handleAssignTo(w, u, lookup, success)
               [] action \in {"cancel_status_update", "cancel_assign"} ->
                    handleCancelOperation(w, u)
               [] OTHER -> w
       IN IF body.thrown THEN [body EXCEPT !.thrown = FALSE, !.reply = "error"] ELSE body

----------------------------------------------------------------------------
(* MessageHandler                                                          *)

\* A variant of handleTitleInput that stores the title before it is checked.
handleTitleInputEager(w, u, text) ==
  LET sanitizedTitle == sanitizeInput(text)
      validation == validateTitle(sanitizedTitle)
      stored == updateTicketData(w, u, "title" :> sanitizedTitle)
  IN IF ~validation.isValid THEN Reply(stored, validation.error)
     ELSE IF findDuplicateTicket(w.tickets, sanitizedTitle) THEN Reply(stored, "duplicate_title")
     ELSE Reply(updateSessionState(stored, u, "AWAITING_DESCRIPTION"), "title_saved")

\* MessageHandler.handleTitleInput
handleTitleInput(w, u, text) ==
  LET sanitizedTitle == sanitizeInput(text)
      validation == validateTitle(sanitizedTitle)
  IN IF ~validation.isValid THEN Reply(w, validation.error)
     ELSE IF findDuplicateTicket(w.tickets, sanitizedTitle) THEN Reply(w, "duplicate_title")
     ELSE Reply(updateSessionState(updateTicketData(w, u, "title" :> sanitizedTitle),
                                   u, "AWAITING_DESCRIPTION"),
                "title_saved")

\* A variant of handleDescriptionInput that leaves the priority as it is.
handleDescriptionInputNoPriority(w, u, text) ==
  LET session == getSession(w, u)
      w1 == afterGetSession(w, u)
      sanitizedDescription == sanitizeInput(text)
      validation == validateDescription(sanitizedDescription)
      next(stored) ==
        IF TruthyString(TheOne(session).ticketData, "label")
        THEN Reply(updateSessionState(stored, u, "AWAITING_CONFIRMATION"),
                   "description_saved_summary")
        ELSE Reply(updateSessionState(stored, u, "AWAITING_LABEL"),
                   "description_saved_select_label")
  IN IF session = {} THEN w1
     ELSE IF TruthyFlag(TheOne(session).ticketData, "awaitingTemplate")
       THEN next(updateTicketData(w1, u, [description |-> text, awaitingTemplate |-> FALSE]))
     ELSE IF ~validation.isValid THEN Reply(w1, validation.error)
     ELSE next(updateTicketData(w1, u, "description" :> sanitizedDescription))

\* MessageHandler.handleDescriptionInput
handleDescriptionInput(w, u, text) ==
  LET session == getSession(w, u)
      w1 == afterGetSession(w, u)
      sanitizedDescription == sanitizeInput(text)
      validation == validateDescription(sanitizedDescription)
      next(stored) ==
        IF TruthyString(TheOne(session).ticketData, "label")
        THEN Reply(updateTicketData(
                     updateSessionState(stored, u, "AWAITING_CONFIRMATION"),
                     u, "priority" :> "Medium"),
                   "description_saved_summary")
        ELSE Reply(updateSessionState(stored, u, "AWAITING_LABEL"),
                   "description_saved_select_label")
  IN IF session = {} THEN w1
     ELSE IF TruthyFlag(TheOne(session).ticketData, "awaitingTemplate")
       THEN next(updateTicketData(w1, u, [description |-> text, awaitingTemplate |-> FALSE]))
     ELSE IF ~validation.isValid THEN Reply(w1, validation.error)
     ELSE next(updateTicketData(w1, u, "description" :> sanitizedDescription))

\* MessageHandler.handleCommentInput; success says whether addComment
\* returned a comment
handleCommentInput(w, u, success) ==
  LET session == getSession(w, u)
      w1 == afterGetSession(w, u)
      body ==
        IF session = {} \/ ~TruthyString(TheOne(session).ticketData, "issueId")
        THEN Reply(w1, "Session expired. Please try again.")
        ELSE updateSession(
               Reply([w1 EXCEPT !.calls = Append(@, "createComment")],
                     IF success THEN "comment_added" ELSE "comment_failed"),
               u, [state |-> "IDLE", ticketData |-> EmptyData])
  IN IF body.thrown THEN [body EXCEPT !.thrown = FALSE, !.reply = "error"] ELSE body

\* MessageHandler.handleMessage; raw is msg.text
handleMessage(w, u, raw, success) ==
  LET text == Trim(raw)
      session == getSession(w, u)
      w1 == afterGetSession(w, u)
      w2 == updateSession(w1, u, "lastActivity" :> now)
      state == TheOne(session).state
      body ==
        IF session = {} THEN Reply(w1, "please_start")
        ELSE CASE state = "AWAITING_TITLE" -> handleTitleInput(w2, u, text)
               [] state = "AWAITING_DESCRIPTION" -> handleDescriptionInput(w2, u, text)
               [] state = "IDLE" -> Reply(w2, "use_menu_buttons")
               [] state = "ADDING_COMMENT" -> handleCommentInput(w2, u, success)
               [] OTHER -> Reply(w2, "use_provided_buttons")
  IN IF text = <<>> THEN w
     ELSE IF body.thrown THEN [body EXCEPT !.thrown = FALSE, !.reply = "error"]
     ELSE body

----------------------------------------------------------------------------
(* What the users send.                                                    *)

\* msg.text of the titles sent: lengths around the limits of the title
\* rule, a character outside the title's class, control characters and
\* surrounding whitespace, and a text of control characters only
TitleInputs ==
  { Rep(97, 9),
    Rep(97, 10),
    Rep(97, 100),
    Rep(97, 101),
    Rep(97, 9) \o <<35>>,
    Rep(97, 100) \o <<35>>,
    <<1>> \o Rep(97, 10) \o <<32, 127>>,
    Rep(97, 9) \o <<1>>,
    <<1>> }
\* the two titles typed where the title rule is not the subject
TypedTitles == { Rep(97, 9), <<1>> \o Rep(97, 10) \o <<32, 127>> }
DescriptionInputs == { Rep(98, 9), Rep(98, 10) }
OtherInputs == { Rep(99, 3) }

\* the session state stored for user u, "none" when there is no row
StateOf(u) ==
  IF \E r \in sessions : r.user_id = u
  THEN (CHOOSE r \in sessions : r.user_id = u).state
  ELSE "none"

\* the texts a user sends in a given session state: a title when asked for
\* a title, a description when asked for a description
TextInputs(u, titles) ==
  IF StateOf(u) = "AWAITING_TITLE" THEN titles
  ELSE IF StateOf(u) = "AWAITING_DESCRIPTION" THEN DescriptionInputs
  ELSE OtherInputs

\* whether addComment returns a comment matters to a message only when
\* the message is a comment
CommentOutcomes(u) == IF StateOf(u) = "ADDING_COMMENT" THEN BOOLEAN ELSE {FALSE}

\* the values the category, label and priority buttons pressed carry
CategoryValues == {"Bug", "Request"}
LabelValues == {"Bug"}
PriorityValues == {"Medium"}
EditValues == {"title", "description", "label", "priority", "back"}
TemplateValues == {"skip"}
OperationEntries == {"update_status", "assign_issue", "add_comment"}
IssueIds == {"xyz"}
Lookups == {"ok", "none", "error"}

\* how far the clock moves in one step
TickMinutes == {31}
TickDays == {10, 31}

----------------------------------------------------------------------------
(* The state machine.                                                      *)

NoEvent ==
  [kind |-> "none", user |-> "", pre |-> "none", reply |-> "none", calls |-> <<>>]

\* no handler is suspended: tasks are the handlers begun since the bot was
\* last quiet, base and began the sessions table and the time when the
\* first of them began
NoRace == [tasks |-> <<>>, base |-> {}, began |-> 0]

\* the state a handler leaves: the world it returns, and the event recorded
\* (its kind, its user, the session state it found, the reply, the calls)
Handled(w, kind, u) ==
  /\ sessions' = w.sessions
  /\ users' = w.users
  /\ ticket_requests' = w.tickets
  /\ linearIssues' = w.linear
  /\ last' = [kind |-> kind, user |-> u, pre |-> StateOf(u),
              reply |-> w.reply, calls |-> w.calls]
  /\ UNCHANGED <<now, inflight>>

Init ==
  /\ now = 0
  /\ users = {}
  /\ sessions = {}
  /\ ticket_requests = {}
  /\ linearIssues = {}
  /\ last = NoEvent
  /\ inflight = NoRace

\* /start
Start(u) == Handled(handleStart(World, u), "start", u)

\* /cancel
CancelCommand(u) == Handled(handleCancelCommand(World, u), "cancel", u)

\* a callback query whose handling does not call the tracker
Press(u, action, value) ==
  Handled(handleCallback(World, u, action, value, FALSE, "ok", FALSE),
          action \o ":" \o value, u)

CreateTicket(u) == Press(u, "action", "create_ticket")
SelectCategory(u, v) == Press(u, "category", v)
SelectLabel(u, v) == Press(u, "label", v)
SelectPriority(u, v) == Press(u, "priority", v)
ConfirmEdit(u) == Press(u, "confirm", "edit")
ConfirmCancel(u) == Press(u, "confirm", "cancel")
Edit(u, v) == Press(u, "edit", v)
Template(u, v) == Press(u, "template", v)
BrowseTickets(u) == Press(u, "cmd", "tickets")
CancelOperation(u) == Press(u, "cancel_assign", "")

\* confirm:yes; ok is the tracker's answer; at most cap rows are inserted
ConfirmWithin(u, ok, cap) ==
  /\ Cardinality(ticket_requests) < cap
  /\ Handled(handleCallback(World, u, "confirm", "yes", ok, "ok", FALSE),
             "confirm:yes", u)
Confirm(u, ok) == ConfirmWithin(u, ok, MaxTickets)

\* update_status:<id> / assign_issue:<id> / add_comment:<id>
EnterOperation(u, action, issueId, lookup) ==
  Handled(handleCallback(World, u, action, issueId, FALSE, lookup, FALSE),
          action, u)

\* set_status:<team>:<name> and assign_to:<id>
SetStatus(u, lookup, success) ==
  Handled(handleCallback(World, u, "set_status", "", FALSE, lookup, success),
          "set_status", u)
AssignTo(u, lookup, success) ==
  Handled(handleCallback(World, u, "assign_to", "", FALSE, lookup, success),
          "assign_to", u)

\* a text message that is not a command
Message(u, raw, success) ==
  Handled(handleMessage(World, u, raw, success), "message", u)

\* the five-minute cleanup timer fires
CleanupInterval == Handled(cleanupTick(World), "cleanup", "")

\* the daily reset script runs: resetDailyTicketCounts of dailyReset.ts
DailyReset ==
  Handled([World EXCEPT !.users = dbResetDailyTicketCounts(@)], "daily_reset", "")

\* time passes
Passed(t) ==
  /\ now' = t
  /\ last' = [NoEvent EXCEPT !.kind = "tick"]
  /\ UNCHANGED <<users, sessions, ticket_requests, linearIssues, inflight>>

TickMinute(d) ==
  /\ (now % SecondsPerDay) + d * SecondsPerMinute <= MaxMinuteOfDay * SecondsPerMinute
  /\ Passed(now + d * SecondsPerMinute)

TickDay(d) ==
  /\ (now \div SecondsPerDay) + d <= MaxDay
  /\ Passed(now + d * SecondsPerDay)

\* One day of the bot: every handler, the two timers and the clock.
Next ==
  \/ \E u \in Users : Start(u)
  \/ \E u \in Users : CancelCommand(u)
  \/ \E u \in Users : CreateTicket(u)
  \/ \E u \in Users, v \in CategoryValues : SelectCategory(u, v)
  \/ \E u \in Users, v \in LabelValues : SelectLabel(u, v)
  \/ \E u \in Users, v \in PriorityValues : SelectPriority(u, v)
  \/ \E u \in Users, ok \in BOOLEAN : Confirm(u, ok)
  \/ \E u \in Users : ConfirmEdit(u)
  \/ \E u \in Users : ConfirmCancel(u)
  \/ \E u \in Users, v \in EditValues : Edit(u, v)
  \/ \E u \in Users, v \in TemplateValues : Template(u, v)
  \/ \E u \in Users : BrowseTickets(u)
  \/ \E u \in Users, a \in OperationEntries, i \in IssueIds, l \in Lookups :
       EnterOperation(u, a, i, l)
  \/ \E u \in Users, l \in Lookups, b \in BOOLEAN : SetStatus(u, l, b)
  \/ \E u \in Users, l \in Lookups, b \in BOOLEAN : AssignTo(u, l, b)
  \/ \E u \in Users : CancelOperation(u)
  \/ \E u \in Users :
       \E t \in TextInputs(u, TypedTitles), b \in CommentOutcomes(u) : Message(u, t, b)
  \/ CleanupInterval
  \/ DailyReset
  \/ \E d \in TickMinutes : TickMinute(d)

Spec == Init /\ [][Next]_vars

----------------------------------------------------------------------------
(* The title rule: the creation flow with titles around the limits.        *)

NextTitle ==
  \/ \E u \in Users : Start(u)
  \/ \E u \in Users : SelectCategory(u, "Bug")
  \/ \E u \in Users : \E t \in TextInputs(u, TitleInputs) : Message(u, t, FALSE)
  \/ \E u \in Users, ok \in BOOLEAN : Confirm(u, ok)
  \/ \E u \in Users : ConfirmCancel(u)
  \/ \E u \in Users : Edit(u, "title")

SpecTitle == Init /\ [][NextTitle]_vars

----------------------------------------------------------------------------
(* The duplicate window: two requesters, and days passing.                 *)

DupUsers == {"u1", "u2"}

NextDup ==
  \/ \E u \in DupUsers : Start(u)
  \/ \E u \in DupUsers : SelectCategory(u, "Bug")
  \/ \E u \in DupUsers : \E t \in TextInputs(u, {Rep(97, 10)}) \ OtherInputs :
       Message(u, t, FALSE)
  \/ \E u \in DupUsers, ok \in BOOLEAN : ConfirmWithin(u, ok, MaxTickets + 1)
  \/ \E d \in TickMinutes : TickMinute(d)
  \/ \E d \in TickDays : TickDay(d)

SpecDup == Init /\ [][NextDup]_vars

----------------------------------------------------------------------------
(* The daily limit: one user creating tickets up to the documented         *)
(* maximum and one more, each with a title of its own.                     *)

\* MAX_TICKETS_PER_DAY || '5'
maxTicketsPerDay == 5

LimitTitles == {Rep(c, TitleMin) : c \in 100 .. (100 + maxTicketsPerDay)}

NextLimit ==
  \/ \E u \in Users : Start(u)
  \/ \E u \in Users : CreateTicket(u)
  \/ \E u \in Users : SelectCategory(u, "Bug")
  \/ \E u \in Users : \E t \in TextInputs(u, LimitTitles) \ OtherInputs :
       Message(u, t, FALSE)
  \/ \E u \in Users : ConfirmWithin(u, TRUE, maxTicketsPerDay + 1)

SpecLimit == Init /\ [][NextLimit]_vars

----------------------------------------------------------------------------
(* The draft: the creation flow with the bug template, the edit menu, a    *)
(* priority other than the default, and descriptions around the            *)
(* description rule.                                                       *)

\* msg.text of the descriptions sent: lengths around the minimum, control
\* characters and surrounding whitespace, a text of control characters only
DescriptionTexts ==
  { Rep(98, 9),
    Rep(98, 10),
    Rep(98, 9) \o <<1>>,
    <<1>> \o Rep(98, 10) \o <<32, 127>>,
    <<1>> }

\* the texts a user sends while a draft is written
FlowTexts(u) ==
  IF StateOf(u) = "AWAITING_DESCRIPTION" THEN DescriptionTexts
  ELSE TextInputs(u, {Rep(97, 10)})

NextFlow ==
  \/ \E u \in Users : Start(u)
  \/ \E u \in Users : SelectCategory(u, "Bug")
  \/ \E u \in Users : SelectLabel(u, "Bug")
  \/ \E u \in Users : SelectPriority(u, "High")
  \/ \E u \in Users : Template(u, "bug")
  \/ \E u \in Users, v \in EditValues : Edit(u, v)
  \/ \E u \in Users : \E t \in FlowTexts(u) : Message(u, t, FALSE)

SpecFlow == Init /\ [][NextFlow]_vars

----------------------------------------------------------------------------
(* Ticket records: one user confirming drafts with two titles while the    *)
(* tracker answers or fails, so that records in several statuses exist     *)
(* side by side.                                                           *)

StatusTitles == {Rep(100, TitleMin), Rep(101, TitleMin)}

NextStatus ==
  \/ \E u \in Users : Start(u)
  \/ \E u \in Users : SelectCategory(u, "Bug")
  \/ \E u \in Users : \E t \in TextInputs(u, StatusTitles) \ OtherInputs :
       Message(u, t, FALSE)
  \/ \E u \in Users, ok \in BOOLEAN : ConfirmWithin(u, ok, MaxTickets + 1)
  \/ \E u \in Users : ConfirmCancel(u)

SpecStatus == Init /\ [][NextStatus]_vars

----------------------------------------------------------------------------
(* The SessionManager on its own: its methods called in any order for      *)
(* registered and unregistered users.                                      *)

SMUsers == {"u1", "u2"}

\* a direct call of a method: it returns, or it throws an Error whose
\* message the caller sees
Called(w, method, u) ==
  Handled(IF w.thrown THEN [w EXCEPT !.thrown = FALSE, !.reply = "thrown: " \o w.error]
          ELSE [w EXCEPT !.reply = "returned"],
          method, u)

\* the updates passed to updateSession by its callers other than
\* updateSessionState and updateTicketData: a reset to IDLE, a refresh
SMUpdates == { [state |-> "IDLE", ticketData |-> EmptyData], "lastActivity" :> now }
\* how far the clock moves in one step: twice is the timeout or one minute
\* more
SMTickMinutes == {15, 16}

CreateSession(u) == Called(createSession(World, u), "createSession", u)
GetSession(u) == Called(afterGetSession(World, u), "getSession", u)
UpdateSession(u, updates) ==
  Called(updateSession(World, u, updates), "updateSession", u)
UpdateSessionState(u, state) ==
  Called(updateSessionState(World, u, state), "updateSessionState", u)
UpdateTicketData(u, data) ==
  Called(updateTicketData(World, u, data), "updateTicketData", u)
DeleteSession(u) == Called(deleteSession(World, u), "deleteSession", u)

NextSM ==
  \/ \E u \in SMUsers : Start(u)
  \/ \E u \in SMUsers : CreateSession(u)
  \/ \E u \in SMUsers : GetSession(u)
  \/ \E u \in SMUsers, updates \in SMUpdates : UpdateSession(u, updates)
  \/ \E u \in SMUsers : UpdateSessionState(u, "AWAITING_TITLE")
  \/ \E u \in SMUsers : UpdateTicketData(u, "label" :> "Bug")
  \/ \E u \in SMUsers : DeleteSession(u)
  \/ CleanupInterval
  \/ \E d \in SMTickMinutes : TickMinute(d)

SpecSM == Init /\ [][NextSM]_vars

----------------------------------------------------------------------------
(* Handlers that overlap.  Every handler is an async function that the     *)
(* bot starts for each update without waiting for the one before; it runs  *)
(* until its next await and then any other handler or timer may run.  A    *)
(* task is a handler in flight: the SessionManager calls it has still to   *)
(* make (prog), how far it is inside the first of them (pc), and what its  *)
(* reads returned (a: the read of updateTicketData or of                   *)
(* handleConfirmation, b: the read of updateSession, at: the time of that  *)
(* read, which is the value of new Date() in updateSession, rec: the id of *)
(* the ticket record it inserted, issue: the issue the tracker created).   *)

\* at most this many handlers begin before the bot is quiet again
MaxRaceEvents == 2

\* the title typed by the user whose message is in flight
RaceTitle == Rep(100, TitleMin)
\* the events whose handlers may overlap
RaceEvents == {"message", "confirm:cancel", "priority:Low", "action:create_ticket"}
\* the instants, in minutes, at which the clock is looked at: a session
\* last active at 0 is live at the first and expired at the second
RaceInstants == {30, 31}

Call(op, arg) == [op |-> op, arg |-> arg]

\* the SessionManager calls of each handler, in the order of its awaits
ProgOf(kind) ==
  CASE kind = "message" -> <<Call("route", EmptyData)>>
    [] kind = "confirm:cancel" ->
         <<Call("get", EmptyData),
           Call("update", [state |-> "IDLE", ticketData |-> EmptyData])>>
    [] kind = "priority:Low" ->
         <<Call("data", "priority" :> "Low"),
           Call("update", "state" :> "AWAITING_CONFIRMATION"),
           Call("get", EmptyData)>>
    [] kind = "action:create_ticket" -> <<Call("limit", EmptyData)>>
    [] kind = "confirm:yes" ->
         <<Call("draft", EmptyData), Call("insert", EmptyData),
           Call("create", EmptyData), Call("mark", EmptyData),
           Call("count", EmptyData),
           Call("update", [state |-> "IDLE", ticketData |-> EmptyData])>>

\* handleMessage after its getSession: the refresh of lastActivity, then
\* handleTitleInput for a valid title that is no duplicate
RouteProg(state) ==
  IF state = "AWAITING_TITLE"
  THEN <<Call("update", EmptyData),
         Call("data", "title" :> sanitizeInput(Trim(RaceTitle))),
         Call("update", "state" :> "AWAITING_DESCRIPTION")>>
  ELSE <<Call("update", EmptyData)>>

\* handleAction after its getUserTicketsToday
LimitProg(u) ==
  IF "rateLimit" \notin DOMAIN config THEN <<>>
  ELSE IF getUserTicketsToday(users, u) >= config.rateLimit.maxTicketsPerDay THEN <<>>
  ELSE <<Call("update", "state" :> "AWAITING_CATEGORY")>>

Task(u, kind) ==
  [user |-> u, kind |-> kind, prog |-> ProgOf(kind), pc |-> 1,
   a |-> {}, b |-> {}, at |-> 0, rec |-> 0, issue |-> 0]

\* One step of a task: the part of its handler up to the next await.
\*   get     SessionManager.getSession, and the handler returns on null
\*   route   the getSession of handleMessage and the switch on session.state
\*   limit   the getUserTicketsToday of handleAction and what follows it
\*   update  SessionManager.updateSession: its getSession (pc 1), then its
\*           saveSession of {...session, ...updates, lastActivity} (pc 2)
\*   data    SessionManager.updateTicketData: its getSession (pc 1), then
\*           updateSession of {...session.ticketData, ...ticketData}
\*           (pc 2 and 3)
\* A read of an expired row deletes it; 'Session not found' ends the handler.
StepTask(t) ==
  LET call == Head(t.prog)
      read == getSession(World, t.user)
      afterRead == afterGetSession(World, t.user).sessions
      next == [t EXCEPT !.prog = Tail(@), !.pc = 1, !.a = {}, !.b = {}]
      abort == [t EXCEPT !.prog = <<>>, !.pc = 1, !.a = {}, !.b = {}]
  IN CASE call.op = "get" ->
            [task |-> IF read = {} THEN abort ELSE next, sessions |-> afterRead]
       [] call.op = "route" ->
            [task |-> IF read = {} THEN abort
                      ELSE [next EXCEPT !.prog = RouteProg(TheOne(read).state)],
             sessions |-> afterRead]
       [] call.op = "limit" ->
            [task |-> [next EXCEPT !.prog = LimitProg(t.user)], sessions |-> sessions]
       [] call.op = "update" /\ t.pc = 1 ->
            [task |-> IF read = {} THEN abort
                      ELSE [t EXCEPT !.pc = 2, !.b = read, !.at = now],
             sessions |-> afterRead]
       [] call.op = "update" /\ t.pc = 2 ->
            [task |-> next,
             sessions |-> saveSession(sessions,
                            ("lastActivity" :> t.at) @@ call.arg @@ TheOne(t.b))]
       [] call.op = "data" /\ t.pc = 1 ->
            [task |-> IF read = {} THEN abort ELSE [t EXCEPT !.pc = 2, !.a = read],
             sessions |-> afterRead]
       [] call.op = "data" /\ t.pc = 2 ->
            [task |-> IF read = {} THEN abort
                      ELSE [t EXCEPT !.pc = 3, !.b = read, !.at = now],
             sessions |-> afterRead]
       [] call.op = "data" /\ t.pc = 3 ->
            [task |-> next,
             sessions |-> saveSession(sessions,
                            ("lastActivity" :> t.at)
                            @@ ("ticketData" :> (call.arg @@ TheOne(t.a).ticketData))
                            @@ TheOne(t.b))]

\* the update arrives and its handler starts; a text is typed when the bot
\* asks for a title, and once
Begin(u, kind) ==
  /\ Len(inflight.tasks) < MaxRaceEvents
  /\ \E r \in getUserById(users, u) : r.is_authenticated
  /\ kind = "message" =>
       /\ StateOf(u) = "AWAITING_TITLE"
       /\ \A i \in DOMAIN inflight.tasks : inflight.tasks[i].kind # "message"
  /\ inflight' =
       IF inflight.tasks = <<>>
       THEN [tasks |-> <<Task(u, kind)>>, base |-> sessions, began |-> now]
       ELSE [inflight EXCEPT !.tasks = Append(@, Task(u, kind))]
  /\ last' = [NoEvent EXCEPT !.kind = "begin", !.user = u]
  /\ UNCHANGED <<now, users, sessions, ticket_requests, linearIssues>>

\* One step of handleConfirmation, case 'yes'; ok is the tracker's answer.
\*   draft   its getSession, and the return on null
\*   insert  this.db.createTicket from the draft that was read
\*   create  linearService.createTicket
\*   mark    this.db.updateTicketStatus(ticketRecord.id, CREATED, id, url)
\*   count   this.db.incrementUserTicketCount
\* An exception ends the handler in its catch block, which writes nothing
\* as the draft has no id.
StepConfirm(t, ok) ==
  LET call == Head(t.prog)
      u == t.user
      data == TheOne(t.a).ticketData
      next == [t EXCEPT !.prog = Tail(@)]
      abort == [t EXCEPT !.prog = <<>>]
      same == [task |-> next, sessions |-> sessions, tickets |-> ticket_requests,
               users |-> users, linear |-> linearIssues]
  IN CASE call.op = "draft" ->
            [same EXCEPT !.task = IF getSession(World, u) = {} THEN abort
                                  ELSE [next EXCEPT !.a = getSession(World, u)],
                         !.sessions = afterGetSession(World, u).sessions]
       [] call.op = "insert" ->
            IF insertTicketOk(users, u, Field(data, "title"), Field(data, "description"),
                              Field(data, "label"), Field(data, "priority"))
            THEN [same EXCEPT !.task = [next EXCEPT !.rec = generateId(ticket_requests)],
                              !.tickets =
                                @ \cup {ticketRow(@, u, Field(data, "title"),
                                                  Field(data, "description"),
                                                  Field(data, "label"),
                                                  Field(data, "priority"), "submitted")}]
            ELSE [same EXCEPT !.task = abort]
       [] call.op = "create" ->
            IF ok
            THEN [same EXCEPT !.task = [next EXCEPT !.issue = Cardinality(linearIssues) + 1],
                              !.linear = @ \cup {Cardinality(@) + 1}]
            ELSE [same EXCEPT !.task = abort]
       [] call.op = "mark" ->
            [same EXCEPT !.tickets =
               updateTicketStatus(@, t.rec, "created",
                                  {<<"id", t.issue>>}, {<<"url", t.issue>>})]
       [] call.op = "count" ->
            [same EXCEPT !.users = incrementUserTicketCount(@, u)]

\* the calls of a handler that StepTask runs
SessionCalls == {"get", "route", "limit", "update", "data"}

\* the handleConfirmation in flight at position i runs up to its next await
ConfirmStep(i, ok) ==
  /\ i \in DOMAIN inflight.tasks
  /\ inflight.tasks[i].prog # <<>>
  /\ Head(inflight.tasks[i].prog).op \notin SessionCalls
  /\ ok = FALSE => Head(inflight.tasks[i].prog).op = "create"
  /\ sessions' = StepConfirm(inflight.tasks[i], ok).sessions
  /\ ticket_requests' = StepConfirm(inflight.tasks[i], ok).tickets
  /\ users' = StepConfirm(inflight.tasks[i], ok).users
  /\ linearIssues' = StepConfirm(inflight.tasks[i], ok).linear
  /\ inflight' = [inflight EXCEPT !.tasks[i] = StepConfirm(inflight.tasks[i], ok).task]
  /\ last' = [NoEvent EXCEPT !.kind = "step", !.user = inflight.tasks[i].user]
  /\ UNCHANGED now

\* the handler in flight at position i runs up to its next await
Step(i) ==
  /\ i \in DOMAIN inflight.tasks
  /\ inflight.tasks[i].prog # <<>>
  /\ Head(inflight.tasks[i].prog).op \in SessionCalls
  /\ sessions' = StepTask(inflight.tasks[i]).sessions
  /\ inflight' = [inflight EXCEPT !.tasks[i] = StepTask(inflight.tasks[i]).task]
  /\ last' = [NoEvent EXCEPT !.kind = "step", !.user = inflight.tasks[i].user]
  /\ UNCHANGED <<now, users, ticket_requests, linearIssues>>

\* the clock reaches the instant m
TickTo(m) ==
  /\ now < m * SecondsPerMinute
  /\ m <= MaxMinuteOfDay
  /\ Passed(m * SecondsPerMinute)

\* A user is brought to the title prompt by handlers that run alone; then
\* handlers overlap, with the cleanup timer and the clock in between.
NextRace ==
  \/ \E u \in Users : inflight = NoRace /\ Start(u)
  \/ \E u \in Users : inflight = NoRace /\ SelectCategory(u, "Bug")
  \/ \E u \in Users, kind \in RaceEvents : Begin(u, kind)
  \/ \E i \in 1..MaxRaceEvents : Step(i)
  \/ CleanupInterval
  \/ \E m \in RaceInstants : TickTo(m)

SpecRace == Init /\ [][NextRace]_vars

\* A user completes a draft by handlers that run alone; then the Create
\* Ticket button is pressed more than once and the handlers overlap.
NextDouble ==
  \/ \E u \in Users : inflight = NoRace /\ Start(u)
  \/ \E u \in Users : inflight = NoRace /\ SelectCategory(u, "Bug")
  \/ \E u \in Users : \E t \in TextInputs(u, {RaceTitle}) \ OtherInputs :
       inflight = NoRace /\ Message(u, t, FALSE)
  \/ \E u \in Users : Begin(u, "confirm:yes")
  \/ \E i \in 1..MaxRaceEvents : Step(i)
  \/ \E i \in 1..MaxRaceEvents, ok \in BOOLEAN : ConfirmStep(i, ok)

SpecDouble == Init /\ [][NextDouble]_vars

----------------------------------------------------------------------------
(* Properties.                                                             *)

\* the draft stored for user u
DraftOf(u) == (CHOOSE r \in sessions : r.user_id = u).ticket_data
\* the number of createIssue calls among calls
CreateCalls(calls) == Len(SelectSeq(calls, LAMBDA c : c = "createIssue"))
\* event e is a confirm:yes of user u answered with the success message
SuccessfulConfirm(e, u) ==
  e.kind = "confirm:yes" /\ e.user = u /\ e.reply = "ticket_created"
DayOf(t) == t \div SecondsPerDay

\* C1: When confirm is handled for a live session in AWAITING_CONFIRMATION
\* and the tracker's create call is made and succeeds, exactly one ticket
\* row is added, its status is 'created' and it carries the id and the url
\* of the issue just created; the user's daily counter grows by exactly
\* one; the session is IDLE with an empty draft.
C1_ConfirmSuccess ==
  \A u \in Users :
    LET w == handleCallback(World, u, "confirm", "yes", TRUE, "ok", FALSE)
        new == w.tickets \ ticket_requests
    IN ((\E s \in getSession(World, u) : s.state = "AWAITING_CONFIRMATION")
        /\ w.calls = <<"createIssue">>)
       => /\ Cardinality(new) = 1
          /\ \A r \in new :
               /\ r.status = "created"
               /\ r.linear_ticket_id = {linearTicketId(w)}
               /\ r.linear_ticket_url = {linearTicketUrl(w)}
          /\ Cardinality(w.linear \ linearIssues) = 1
          /\ linearTicketId(w)[2] \in w.linear \ linearIssues
          /\ getUserTicketsToday(w.users, u) = getUserTicketsToday(users, u) + 1
          /\ dbGetSession(w.sessions, u) # {}
          /\ \A s \in dbGetSession(w.sessions, u) :
               s.state = "IDLE" /\ s.ticketData = EmptyData
          /\ w.reply = "ticket_created"

C1_Witness ==
  /\ last.kind = "confirm:yes"
  /\ last.pre = "AWAITING_CONFIRMATION"
  /\ last.reply = "ticket_created"
  /\ \E r \in ticket_requests : r.status = "created" /\ r.linear_ticket_id # {}
  /\ getUserTicketsToday(users, last.user) = 1
  /\ StateOf(last.user) = "IDLE"
  /\ DraftOf(last.user) = EmptyData

\* C2: After a confirm whose tracker create call failed, the ticket row
\* that the confirm inserted has status 'failed'.
C2_FailedCallMarksFailed ==
  (last.kind = "confirm:yes" /\ last.calls = <<"createIssue">>
   /\ last.reply = "create_failed")
  => \A r \in ticket_requests :
       r.id = Cardinality(ticket_requests) => r.status = "failed"

\* C3: After every confirm that reached the tracker's create call, whether
\* the call succeeded or failed, the session is IDLE and the draft is empty.
C3_ConfirmEndsIdle ==
  (last.kind = "confirm:yes" /\ CreateCalls(last.calls) > 0)
  => StateOf(last.user) = "IDLE" /\ DraftOf(last.user) = EmptyData

\* C4: A step raises a user's daily counter only if it is a confirm of that
\* user answered with success, and such a step raises it by exactly one;
\* every other step
\* except the daily reset (a failing confirm, a cancel, a rejected input, a
\* rejected create_ticket, every event of an operation state) leaves the
\* counter as it was.
C4_CounterSteps ==
  [][\A u \in Users :
       LET before == getUserTicketsToday(users, u)
           after == getUserTicketsToday(users', u)
       IN /\ after > before => (after = before + 1 /\ SuccessfulConfirm(last', u))
          /\ SuccessfulConfirm(last', u) => after = before + 1
          /\ (last'.kind # "daily_reset" /\ ~SuccessfulConfirm(last', u))
             => after = before]_vars

C4_Witness ==
  /\ last.kind = "action:create_ticket"
  /\ last.reply # "select_category"
  /\ getUserTicketsToday(users, last.user) = 1

\* C5: When create_ticket is pressed by a user whose daily counter equals
\* the daily maximum after that many successful confirmations, the reply is
\* the limit-reached message and the session state is as it was.
C5_LimitReached ==
  (/\ last.kind = "action:create_ticket"
   /\ getUserTicketsToday(users, last.user) = maxTicketsPerDay
   /\ Cardinality({r \in ticket_requests : r.status = "created"}) = maxTicketsPerDay)
  => last.reply = "daily_limit_reached" /\ StateOf(last.user) = last.pre

C7_OneFreshSession ==
  /\ \A u \in SMUsers : Cardinality({r \in sessions : r.user_id = u}) <= 1
  /\ (last.kind = "createSession" /\ last.reply = "returned")
     => dbGetSession(sessions, last.user) =
          {[userId |-> last.user, state |-> "IDLE", ticketData |-> EmptyData,
            lastActivity |-> now, createdAt |-> now]}

C7_Witness ==
  /\ last.kind = "createSession"
  /\ last.reply = "returned"
  /\ last.pre = "AWAITING_TITLE"
  /\ now > 0
  /\ StateOf(last.user) = "IDLE"

\* C8: For a live session in AWAITING_TITLE, a title that fails validation
\* or duplicates a ticket leaves the session in AWAITING_TITLE with the
\* draft it had.
C8_RejectedTitleKeepsDraft ==
  \A u \in Users : \A s \in getSession(World, u) :
    s.state = "AWAITING_TITLE" =>
      \A raw \in TitleInputs :
        LET title == sanitizeInput(Trim(raw))
            w == handleMessage(World, u, raw, FALSE)
        IN (~validateTitle(title).isValid
            \/ findDuplicateTicket(ticket_requests, title))
           => /\ dbGetSession(w.sessions, u) # {}
              /\ \A t \in dbGetSession(w.sessions, u) :
                   t.state = "AWAITING_TITLE" /\ t.ticketData = s.ticketData

C8_Witness ==
  /\ last.kind = "message"
  /\ last.pre = "AWAITING_TITLE"
  /\ last.reply = "duplicate_title"
  /\ StateOf(last.user) = "AWAITING_TITLE"
  /\ "title" \notin DOMAIN DraftOf(last.user)

\* the title rule as the specification words it
TitleRuleHolds(t) ==
  /\ Len(t) >= 10 /\ Len(t) <= 100
  /\ \A i \in 1..Len(t) : IsAllowedTitleChar(t[i])

\* C9: The title is sanitized first (no control character is left, no
\* whitespace at either end).  The sanitized title is valid exactly when
\* its length is in 10..100 and all its characters are allowed; lengths 9
\* and 101 are rejected; too short, too long and a bad character are
\* answered with three different reasons.  An accepted title that is no
\* duplicate becomes draft.title and the state becomes AWAITING_DESCRIPTION.
C9_TitleRule ==
  \A u \in Users : \A s \in getSession(World, u) :
    s.state = "AWAITING_TITLE" =>
      \A raw \in TitleInputs :
        LET title == sanitizeInput(Trim(raw))
            w == handleMessage(World, u, raw, FALSE)
        IN /\ \A i \in 1..Len(title) : ~IsControl(title[i])
           /\ title # <<>> =>
                ~IsWhitespace(title[1]) /\ ~IsWhitespace(title[Len(title)])
           /\ validateTitle(title).isValid <=> TitleRuleHolds(title)
           /\ Len(title) \in {9, 101} => w.reply # "title_saved"
           /\ ~TitleRuleHolds(title) => w.reply # "title_saved"
           /\ (Len(title) > 0 /\ Len(title) < 10)
              => w.reply = "Title must be at least 10 characters long"
           /\ Len(title) > 100 => w.reply = "Title must not exceed 100 characters"
           /\ (Len(title) >= 10 /\ Len(title) <= 100 /\ ~TitleRuleHolds(title))
              => w.reply = "Title can only contain letters, numbers, spaces, and the following characters: - _ . , !"
           /\ (TitleRuleHolds(title) /\ ~findDuplicateTicket(ticket_requests, title))
              => /\ w.reply = "title_saved"
                 /\ dbGetSession(w.sessions, u) # {}
                 /\ \A t \in dbGetSession(w.sessions, u) :
                      /\ t.state = "AWAITING_DESCRIPTION"
                      /\ "title" \in DOMAIN t.ticketData
                      /\ t.ticketData["title"] = title

C9_Witness ==
  /\ last.kind = "message"
  /\ last.pre = "AWAITING_TITLE"
  /\ last.reply = "title_saved"
  /\ StateOf(last.user) = "AWAITING_DESCRIPTION"
  /\ Len(DraftOf(last.user)["title"]) = 100

\* C10: A title equal, after sanitization, to the title of a ticket that
\* was created successfully ten days before is rejected as a duplicate,
\* whoever sends it; a title whose matching tickets are all at least 31
\* days old is accepted.
C10_DuplicateWindow ==
  \A u \in DupUsers : \A s \in getSession(World, u) :
    s.state = "AWAITING_TITLE" =>
      \A raw \in {Rep(97, 10), <<1>> \o Rep(97, 10) \o <<32, 127>>} :
        LET title == sanitizeInput(Trim(raw))
            w == handleMessage(World, u, raw, FALSE)
            matching == {r \in ticket_requests : r.title = title}
        IN /\ (\E r \in matching :
                 r.status = "created" /\ DayOf(now) - DayOf(r.created_at) = 10)
              => w.reply = "duplicate_title"
           /\ (matching # {}
               /\ \A r \in matching : now - r.created_at >= 31 * SecondsPerDay)
              => w.reply = "title_saved"

C10_Witness ==
  /\ last.kind = "message"
  /\ last.pre = "AWAITING_TITLE"
  /\ last.reply = "title_saved"
  /\ \E r \in ticket_requests :
       /\ r.status = "created"
       /\ r.telegram_user_id # last.user
       /\ r.title = DraftOf(last.user)["title"]
       /\ now - r.created_at >= 31 * SecondsPerDay

\* the replies that say a description was accepted
DescriptionSaved == {"description_saved_summary", "description_saved_select_label"}

C12_TemplateExemptionOnce ==
  \A u \in Users : \A s \in getSession(World, u) :
    \A raw \in DescriptionTexts :
      LET w == handleMessage(World, u, raw, FALSE)
      IN /\ (TruthyFlag(s.ticketData, "awaitingTemplate")
             /\ s.state \in {"AWAITING_PRIORITY", "AWAITING_DESCRIPTION"}) =>
              /\ dbGetSession(w.sessions, u) # {}
              /\ \A t \in dbGetSession(w.sessions, u) :
                   /\ ~TruthyFlag(t.ticketData, "awaitingTemplate")
                   /\ s.state = "AWAITING_DESCRIPTION" =>
                        /\ w.reply \in DescriptionSaved
                        /\ Field(t.ticketData, "description") = {Trim(raw)}
         /\ (s.state = "AWAITING_DESCRIPTION"
             /\ Field(s.ticketData, "awaitingTemplate") = {FALSE}
             /\ Len(sanitizeInput(Trim(raw))) < DescriptionMin)
            => w.reply \notin DescriptionSaved

\* C13: When a description is accepted for a live session in
\* AWAITING_DESCRIPTION, the description is stored; if the draft already
\* has a label the session ends in AWAITING_CONFIRMATION with priority
\* Medium; if it has none the session ends in AWAITING_LABEL and the
\* priority is what it was (not set by this step).
C13_AfterDescription ==
  \A u \in Users : \A s \in getSession(World, u) :
    s.state = "AWAITING_DESCRIPTION" =>
      \A raw \in DescriptionTexts :
        LET w == handleMessage(World, u, raw, FALSE)
            stored == IF TruthyFlag(s.ticketData, "awaitingTemplate")
                      THEN Trim(raw) ELSE sanitizeInput(Trim(raw))
        IN w.reply \in DescriptionSaved =>
             /\ dbGetSession(w.sessions, u) # {}
             /\ \A t \in dbGetSession(w.sessions, u) :
                  /\ Field(t.ticketData, "description") = {stored}
                  /\ Field(t.ticketData, "label") = Field(s.ticketData, "label")
                  /\ IF "label" \in DOMAIN s.ticketData
                     THEN /\ t.state = "AWAITING_CONFIRMATION"
                          /\ Field(t.ticketData, "priority") = {"Medium"}
                     ELSE /\ t.state = "AWAITING_LABEL"
                          /\ Field(t.ticketData, "priority")
                               = Field(s.ticketData, "priority")

C13_Witness ==
  /\ last.kind = "message"
  /\ last.pre = "AWAITING_DESCRIPTION"
  /\ last.reply = "description_saved_select_label"
  /\ StateOf(last.user) = "AWAITING_LABEL"
  /\ "label" \notin DOMAIN DraftOf(last.user)
  /\ Field(DraftOf(last.user), "description") = {Rep(98, 10)}
  /\ Field(DraftOf(last.user), "priority") = {"High"}

\* the fields of a draft that the creation flow collects
CollectedFields == {"title", "description", "label", "priority"}
\* the state that awaits a field
AwaitingState(field) ==
  CASE field = "title" -> "AWAITING_TITLE"
    [] field = "description" -> "AWAITING_DESCRIPTION"
    [] field = "label" -> "AWAITING_LABEL"
    [] field = "priority" -> "AWAITING_PRIORITY"
\* the world after a new, acceptable value for a field has been given in
\* world w
GiveField(w, u, field) ==
  CASE field = "title" -> handleMessage(w, u, Rep(100, TitleMin), FALSE)
    [] field = "description" -> handleMessage(w, u, Rep(101, DescriptionMin), FALSE)
    [] field = "label" -> handleCallback(w, u, "label", "Improvement", FALSE, "ok", FALSE)
    [] field = "priority" -> handleCallback(w, u, "priority", "Low", FALSE, "ok", FALSE)

\* C14: For a live session in AWAITING_CONFIRMATION with a complete draft,
\* choosing to edit one field re-enters that field's state with the draft
\* as it was, and once a new value for that field has been accepted the
\* session is in AWAITING_CONFIRMATION again and every other collected
\* field has the value it had before the edit.
C14_EditKeepsOtherFields ==
  \A u \in Users : \A s \in getSession(World, u) :
    (s.state = "AWAITING_CONFIRMATION" /\ CollectedFields \subseteq DOMAIN s.ticketData) =>
      \A field \in CollectedFields :
        LET w1 == handleCallback(World, u, "edit", field, FALSE, "ok", FALSE)
            w2 == GiveField(w1, u, field)
        IN /\ dbGetSession(w1.sessions, u) # {}
           /\ \A t \in dbGetSession(w1.sessions, u) :
                t.state = AwaitingState(field) /\ t.ticketData = s.ticketData
           /\ dbGetSession(w2.sessions, u) # {}
           /\ \A t \in dbGetSession(w2.sessions, u) :
                /\ t.state = "AWAITING_CONFIRMATION"
                /\ Field(t.ticketData, field) # Field(s.ticketData, field)
                /\ \A k \in CollectedFields \ {field} :
                     Field(t.ticketData, k) = Field(s.ticketData, k)

\* the worlds the three cancel events leave for user u: the /cancel
\* command, confirm:cancel, and the cancel button of an operation
CancelWorlds(u) ==
  { handleCancelCommand(World, u),
    handleCallback(World, u, "confirm", "cancel", FALSE, "ok", FALSE),
    handleCallback(World, u, "cancel_status_update", "", FALSE, "ok", FALSE),
    handleCallback(World, u, "cancel_assign", "", FALSE, "ok", FALSE) }
\* in world w user u has a session that is IDLE with an empty draft
IdleAndEmpty(w, u) ==
  /\ dbGetSession(w.sessions, u) # {}
  /\ \A t \in dbGetSession(w.sessions, u) :
       t.state = "IDLE" /\ t.ticketData = EmptyData
\* the stored record of user u is older than the timeout
Stale(r, u) ==
  r.user_id = u /\ now - r.last_activity > timeoutMinutes * SecondsPerMinute

\* C15 as stated: a cancel event received with a live session that is not
\* IDLE leaves the session IDLE with an empty draft; a /cancel received
\* with no live session, or with an IDLE one, changes nothing in the
\* sessions table.
C15_CancelChangesNothing ==
  \A u \in Users :
    LET s == getSession(World, u)
    IN /\ (s # {} /\ TheOne(s).state # "IDLE")
          => \A w \in CancelWorlds(u) : IdleAndEmpty(w, u)
       /\ (s = {} \/ TheOne(s).state = "IDLE")
          => handleCancelCommand(World, u).sessions = sessions

\* C15 as amended: a cancel event received with a live session that is not
\* IDLE leaves the session IDLE with an empty draft; a /cancel received
\* with no live session, or with an IDLE one, creates no record and changes
\* none, and removes only the user's own record when that has expired.
C15_CancelEndsIdle ==
  \A u \in Users :
    LET s == getSession(World, u)
    IN /\ (s # {} /\ TheOne(s).state # "IDLE")
          => \A w \in CancelWorlds(u) : IdleAndEmpty(w, u)
       /\ (s = {} \/ TheOne(s).state = "IDLE")
          => handleCancelCommand(World, u).sessions
               = {r \in sessions : ~Stale(r, u)}

C15_Witness ==
  /\ last.kind = "cancel"
  /\ last.pre = "AWAITING_CONFIRMATION"
  /\ last.reply = "Operation cancelled."
  /\ StateOf(last.user) = "IDLE"
  /\ DraftOf(last.user) = EmptyData

\* the states of the creation flow after IDLE
CreationStates ==
  {"AWAITING_CATEGORY", "AWAITING_TITLE", "AWAITING_DESCRIPTION", "AWAITING_LABEL",
   "AWAITING_PRIORITY", "AWAITING_CONFIRMATION"}
\* the worlds left by the button presses that the session state does not
\* await: a category outside AWAITING_CATEGORY, a label outside
\* AWAITING_LABEL, a priority outside AWAITING_PRIORITY, a confirm or edit
\* selection outside AWAITING_CONFIRMATION, the ticket list during creation
UnawaitedPresses(u, state) ==
  LET press(action, value) == handleCallback(World, u, action, value, FALSE, "ok", FALSE)
  IN (IF state # "AWAITING_CATEGORY"
      THEN {press("category", v) : v \in CategoryValues} ELSE {})
     \cup (IF state # "AWAITING_LABEL"
           THEN {press("label", v) : v \in LabelValues} ELSE {})
     \cup (IF state # "AWAITING_PRIORITY"
           THEN {press("priority", v) : v \in PriorityValues} ELSE {})
     \cup (IF state # "AWAITING_CONFIRMATION"
           THEN {press("confirm", "yes"), press("confirm", "edit")}
                \cup {press("edit", v) : v \in EditValues}
           ELSE {})
     \cup (IF state \in CreationStates THEN {press("cmd", "tickets")} ELSE {})
\* the worlds left by a text sent in a state that awaits a button
UnawaitedTexts(u, state) ==
  IF state \in {"AWAITING_TITLE", "AWAITING_DESCRIPTION", "ADDING_COMMENT"} THEN {}
  ELSE {handleMessage(World, u, raw, FALSE) : raw \in OtherInputs \cup DescriptionInputs}

\* C16: For a live session, an event that the session's state does not
\* await (a category, label, priority, confirm or edit selection in another
\* state, a text in a state that awaits a button, the ticket list during
\* creation) leaves the session's state and draft exactly as they were.
C16_UnawaitedEventKeepsSession ==
  \A u \in Users : \A s \in getSession(World, u) :
    \A w \in UnawaitedPresses(u, s.state) \cup UnawaitedTexts(u, s.state) :
      /\ dbGetSession(w.sessions, u) # {}
      /\ \A t \in dbGetSession(w.sessions, u) :
           t.state = s.state /\ t.ticketData = s.ticketData

\* the worlds left by every event of user u other than /start: a text, a
\* selection, a cancel, an operation entry and an operation's input
NonStartWorlds(u) ==
  LET press(action, value, lookup) ==
        handleCallback(World, u, action, value, TRUE, lookup, TRUE)
  IN {handleMessage(World, u, raw, TRUE) : raw \in TypedTitles \cup OtherInputs}
     \cup {handleCancelCommand(World, u)}
     \cup {press("action", "create_ticket", "ok"), press("cmd", "tickets", "ok"),
           press("confirm", "yes", "ok"), press("confirm", "edit", "ok"),
           press("confirm", "cancel", "ok"), press("cancel_assign", "", "ok"),
           press("set_status", "", "ok"), press("assign_to", "", "ok")}
     \cup {press("category", v, "ok") : v \in CategoryValues}
     \cup {press("label", v, "ok") : v \in LabelValues}
     \cup {press("priority", v, "ok") : v \in PriorityValues}
     \cup {press("edit", v, "ok") : v \in EditValues}
     \cup {press("template", v, "ok") : v \in TemplateValues \cup {"bug"}}
     \cup {press(a, i, l) : a \in OperationEntries, i \in IssueIds, l \in Lookups}
\* the replies that tell the user to begin again with /start
RestartReplies == {"please_start", "auth_required"}

\* C17: When a user has no live session (none was created, or it was
\* deleted, or it has expired), every event other than /start is answered
\* with an instruction to start again, and creates no session record: the
\* user has no live session afterwards and no row is added or changed.
C17_NoSessionRejected ==
  \A u \in Users :
    getSession(World, u) = {} =>
      \A w \in NonStartWorlds(u) :
        /\ w.reply \in RestartReplies
        /\ getSession(w, u) = {}
        /\ w.sessions \subseteq sessions

\* the age of a session in seconds
Age(session) == now - session.lastActivity

\* C18: If the age of a stored session is greater than the timeout,
\* getSession returns none and deletes the record, so a following
\* getSession returns none too; if the age is at most the timeout,
\* getSession returns the session and deletes nothing.
C18_ExpiryLaw ==
  \A u \in SMUsers : \A s \in dbGetSession(sessions, u) :
    LET w == afterGetSession(World, u)
    IN IF Age(s) > timeoutMinutes * SecondsPerMinute
       THEN /\ getSession(World, u) = {}
            /\ ~w.thrown
            /\ dbGetSession(w.sessions, u) = {}
            /\ getSession(w, u) = {}
            /\ afterGetSession(w, u).sessions = w.sessions
       ELSE /\ getSession(World, u) = {s}
            /\ w.sessions = sessions

C18_Witness ==
  /\ last.kind = "getSession"
  /\ last.reply = "returned"
  /\ last.pre = "AWAITING_TITLE"
  /\ StateOf(last.user) = "none"
  /\ now = (timeoutMinutes + 1) * SecondsPerMinute

\* C19: For a live session, getSession called twice in a row returns the
\* same state, draft, createdAt and lastActivity both times, and the stored
\* record, its last_activity included, is what it was before the calls.
C19_GetSessionIdempotent ==
  \A u \in SMUsers : \A s \in getSession(World, u) :
    LET w1 == afterGetSession(World, u)
        w2 == afterGetSession(w1, u)
    IN /\ getSession(w1, u) = {s}
       /\ w1.sessions = sessions
       /\ w2.sessions = sessions
       /\ \A r \in sessions :
            r.user_id = u =>
              /\ r.state = s.state /\ r.ticket_data = s.ticketData
              /\ r.created_at = s.createdAt /\ r.last_activity = s.lastActivity

C19_Witness ==
  /\ last.kind = "getSession"
  /\ last.reply = "returned"
  /\ last.pre = "AWAITING_TITLE"
  /\ StateOf(last.user) = "AWAITING_TITLE"
  /\ DraftOf(last.user) = ("label" :> "Bug")
  /\ \E r \in sessions :
       /\ r.user_id = last.user
       /\ now - r.last_activity = timeoutMinutes * SecondsPerMinute

\* the updates given to updateSession
UpdatesGiven ==
  SMUpdates \cup { "state" :> "AWAITING_TITLE", "ticketData" :> ("label" :> "Bug") }

\* C20: updateSession for a user without a live session (no record, or an
\* expired one) fails with the error 'Session not found' and leaves no
\* session record for the user; for a live session it stores the session
\* with the given fields overwritten, every other field kept and
\* lastActivity set to the current time; other users' records are untouched.
C20_UpdateSession ==
  \A u \in SMUsers : \A updates \in UpdatesGiven :
    LET w == updateSession(World, u, updates)
        live == {s \in dbGetSession(sessions, u) :
                   Age(s) <= timeoutMinutes * SecondsPerMinute}
    IN /\ {r \in w.sessions : r.user_id # u} = {r \in sessions : r.user_id # u}
       /\ IF live = {}
          THEN /\ w.thrown
               /\ w.error = "Session not found"
               /\ dbGetSession(w.sessions, u) = {}
          ELSE /\ ~w.thrown
               /\ \A s \in live :
                    dbGetSession(w.sessions, u) =
                      {[f \in DOMAIN s |->
                          IF f = "lastActivity" THEN now
                          ELSE IF f \in DOMAIN updates THEN updates[f]
                          ELSE s[f]]}

C20_Witness ==
  /\ last.kind = "updateSession"
  /\ last.reply = "thrown: Session not found"
  /\ last.pre = "AWAITING_TITLE"
  /\ StateOf(last.user) = "none"

\* partial drafts given to updateTicketData
DraftUpdates ==
  { "label" :> "Improvement",
    "title" :> Rep(100, TitleMin),
    "priority" :> "Low",
    [description |-> Rep(101, DescriptionMin), awaitingTemplate |-> FALSE] }

C22_SweepMatchesLazyExpiry ==
  \A u \in SMUsers : \A s \in dbGetSession(sessions, u) :
    LET sweep == cleanupTick(World)
        lazy == afterGetSession(World, u)
        removed == dbGetSession(sweep.sessions, u) = {}
    IN /\ removed <=> (getSession(World, u) = {})
       /\ Age(s) <= timeoutMinutes * SecondsPerMinute => ~removed
       /\ removed =>
            /\ dbGetSession(lazy.sessions, u) = dbGetSession(sweep.sessions, u)
            /\ SelectSeq(lazy.audit, LAMBDA a : a[1] = u)
                 = SelectSeq(sweep.audit, LAMBDA a : a[1] = u)

\* the calls that change something in the tracker
MutatingCalls(calls) ==
  Len(SelectSeq(calls, LAMBDA c : c \in {"createIssue", "updateIssue", "createComment"}))
\* the world left by the one input an operation state expects; lookup is
\* what a read of the tracker made while handling it gives, success is the
\* answer to the mutating call
OperationInput(u, state, lookup, success) ==
  CASE state = "ADDING_COMMENT" -> handleMessage(World, u, Rep(99, 3), success)
    [] state = "UPDATING_STATUS" ->
         handleCallback(World, u, "set_status", "", FALSE, lookup, success)
    [] state = "ASSIGNING_ISSUE" ->
         handleCallback(World, u, "assign_to", "", FALSE, lookup, success)

\* C23: For a live session in an operation state that holds the issue's
\* id, handling the expected input makes exactly one mutating call to the
\* tracker and leaves the session IDLE with an empty draft, whether the
\* call succeeds or fails and whether or not a lookup made on the way fails.
C23_OperationEndsIdle ==
  \A u \in Users : \A s \in getSession(World, u) :
    (s.state \in {"ADDING_COMMENT", "UPDATING_STATUS", "ASSIGNING_ISSUE"}
     /\ TruthyString(s.ticketData, "issueId")) =>
      \A lookup \in {"ok", "error"}, success \in BOOLEAN :
        LET w == OperationInput(u, s.state, lookup, success)
        IN MutatingCalls(w.calls) = 1 /\ IdleAndEmpty(w, u)

\* how far along draft -> submitted -> {created | failed} a status is
StatusRank(status) ==
  CASE status = "draft" -> 0
    [] status = "submitted" -> 1
    [] status \in {"created", "failed"} -> 2
\* every record of table before is in table after, with the status it had
\* or one further along
StatusForward(before, after) ==
  \A r \in before : \E r2 \in after :
    /\ r2.id = r.id
    /\ r2.status = r.status \/ StatusRank(r2.status) > StatusRank(r.status)

\* C24: The status of a ticket record only moves forward along
\* draft -> submitted -> {created | failed}.  Whatever event is handled
\* next, every record is still there with its status or a later one; and
\* within a confirmation the table after the insert and the table the
\* confirmation leaves are each forward of the one before.
C24_StatusForward ==
  /\ \A r \in ticket_requests : r.status \in TicketStatus
  /\ \A u \in Users :
       /\ \A w \in NonStartWorlds(u) \cup {handleStart(World, u)} :
            StatusForward(ticket_requests, w.tickets)
       /\ \A s \in getSession(World, u) : \A ok \in BOOLEAN :
            LET inserted == dbCreateTicket(World, u, s.ticketData)
                done == handleCallback(World, u, "confirm", "yes", ok, "ok", FALSE)
            IN /\ StatusForward(ticket_requests, inserted.tickets)
               /\ StatusForward(inserted.tickets, done.tickets)
               /\ \A r \in inserted.tickets \ ticket_requests : r.status = "submitted"

C24_Witness ==
  /\ last.kind = "confirm:yes"
  /\ last.reply = "create_failed"
  /\ \E r \in ticket_requests : r.status = "created"
  /\ \E r \in ticket_requests : r.status = "submitted"

\* what the handler of an event leaves when it runs alone, from start to end
ApplyEvent(w, u, kind) ==
  CASE kind = "message" -> handleMessage(w, u, RaceTitle, FALSE)
    [] kind = "confirm:cancel" ->
         handleCallback(w, u, "confirm", "cancel", FALSE, "ok", FALSE)
    [] kind = "priority:Low" ->
         handleCallback(w, u, "priority", "Low", FALSE, "ok", FALSE)
    [] kind = "action:create_ticket" ->
         handleCallback(w, u, "action", "create_ticket", FALSE, "ok", FALSE)

\* the sessions table after the handlers of the events ran one after the
\* other on the table found by the first
Serial(tbl, u, kinds) ==
  IF Len(kinds) = 1
  THEN ApplyEvent([World EXCEPT !.sessions = tbl], u, kinds[1]).sessions
  ELSE ApplyEvent([World EXCEPT !.sessions =
                     ApplyEvent([World EXCEPT !.sessions = tbl], u, kinds[1]).sessions],
                  u, kinds[2]).sessions

\* every handler begun has returned, the clock did not move meanwhile and
\* no session was due to expire
Quiet(n) ==
  /\ Len(inflight.tasks) = n
  /\ \A i \in 1..n : inflight.tasks[i].prog = <<>>
  /\ now = inflight.began
  /\ cleanupExpiredSessions(inflight.base, timeoutMinutes) = inflight.base

\* C25: two events of one user whose handlers overlap leave the session
\* that the two handlers leave when one runs after the other, in one of
\* the two orders: no update is lost, a cancel is not undone by a title
\* input that read the session before it, and two draft updates naming
\* different keys both persist.
C25_OverlapIsSerial ==
  Quiet(2) =>
    LET u == inflight.tasks[1].user
        k1 == inflight.tasks[1].kind
        k2 == inflight.tasks[2].kind
    IN sessions \in {Serial(inflight.base, u, <<k1, k2>>),
                     Serial(inflight.base, u, <<k2, k1>>)}

\* C26: two create_ticket presses of one user, the second arriving before
\* the handler of the first has returned, leave one session for the user,
\* in AWAITING_CATEGORY, with the draft the session had (the draft one
\* press alone leaves).
C26_TwoStartsOneSession ==
  \A u \in Users :
    ( /\ Quiet(2)
      /\ \A i \in 1..2 : inflight.tasks[i] = [Task(u, "action:create_ticket") EXCEPT !.prog = <<>>]
      /\ dbGetSession(inflight.base, u) # {} )
    => /\ Cardinality(dbGetSession(sessions, u)) = 1
       /\ \A s \in dbGetSession(sessions, u) :
            /\ s.state = "AWAITING_CATEGORY"
            /\ \A b \in dbGetSession(inflight.base, u) : s.ticketData = b.ticketData

\* a row of the sessions table that a handler could have written in one
\* piece
WellFormedSession(r) ==
  /\ r.state \in {"IDLE"} \cup CreationStates
  /\ DOMAIN r.ticket_data \subseteq CollectedFields
  /\ r.created_at <= r.last_activity
  /\ r.last_activity <= now

\* the task has read the session in updateSession and has still to save it
PendingWrite(t) ==
  /\ t.prog # <<>>
  /\ \/ Head(t.prog).op = "update" /\ t.pc = 2
     \/ Head(t.prog).op = "data" /\ t.pc = 3

\* C27: however the cleanup timer and the deletes of expired sessions fall
\* between the steps of an update of the same user's session, the table
\* holds no row or one well-formed row for the user; and an update whose
\* session was deleted after it read it writes nothing: the deleted session
\* is not inserted again.
C27_DeleteDuringUpdate ==
  /\ \A u \in Users : Cardinality({r \in sessions : r.user_id = u}) <= 1
  /\ \A r \in sessions : WellFormedSession(r)
  /\ \A i \in DOMAIN inflight.tasks :
       ( /\ PendingWrite(inflight.tasks[i])
         /\ dbGetSession(sessions, inflight.tasks[i].user) = {} )
       => dbGetSession(StepTask(inflight.tasks[i]).sessions, inflight.tasks[i].user) = {}

\* a handler makes at most this many session writes
MaxFailedWrite == 3

\* the worlds left by the events that store a part of the draft (a title
\* or a description typed when it is awaited, a category pressed) when the
\* n-th session write of the handler fails
WriteFailureWorlds(u) ==
  LET faulty == {[World EXCEPT !.failWrite = n] : n \in 1..MaxFailedWrite}
      texts == IF StateOf(u) \in {"AWAITING_TITLE", "AWAITING_DESCRIPTION"}
               THEN {RaceTitle} ELSE {}
      left == {handleMessage(w, u, t, FALSE) : w \in faulty, t \in texts}
              \cup {handleCallback(w, u, "category", "Bug", FALSE, "ok", FALSE) :
                    w \in faulty}
  IN {w \in left : w.failWrite = 0}

\* C28: when a session write fails while an event is handled, the session
\* of the user is left as it was before the event: same state and same
\* draft, none of the handler's other writes applied.
C28_WriteFailureKeepsSession ==
  \A u \in Users : \A w \in WriteFailureWorlds(u) :
    \A before \in dbGetSession(sessions, u) :
      \E after \in dbGetSession(w.sessions, u) :
        /\ after.state = before.state
        /\ after.ticketData = before.ticketData

\* the daily counter of each user did not decrease in the step
CountersKept ==
  \A r \in users : \E q \in users' :
    /\ q.telegram_user_id = r.telegram_user_id
    /\ q.tickets_created_today >= r.tickets_created_today

C30_ResetCleansSessions ==
  last.kind = "daily_reset" =>
    \A s \in UNION {dbGetSession(sessions, u) : u \in Users} : ~isExpired(s)

\* a callback value that none of the bot's keyboards carries
UnofferedValues == {"Feature"}

\* the label and the priority of every stored draft are values of the enums
EnumeratedDrafts(tbl) ==
  \A r \in tbl :
    /\ \A v \in Field(r.ticket_data, "label") : v \in TicketLabel
    /\ \A v \in Field(r.ticket_data, "priority") : v \in TicketPriority

\* C31: in every session the label of the draft, when set, is a TicketLabel
\* and the priority, when set, a TicketPriority; a category, label or
\* priority callback that carries another value stores nothing in the draft.
C31_DraftEnumerations ==
  /\ EnumeratedDrafts(sessions)
  /\ \A u \in Users, action \in {"category", "label", "priority"} :
       \A v \in TicketLabel \cup TicketPriority \cup UnofferedValues :
         EnumeratedDrafts(
           handleCallback(World, u, action, v, FALSE, "ok", FALSE).sessions)

\* what deleteSession leaves for user u, and what a second call leaves
AfterDelete(u) == deleteSession(World, u)
AfterDeleteTwice(u) == deleteSession([AfterDelete(u) EXCEPT !.thrown = FALSE], u)

\* the effect of deleteSession on the sessions table: the user's row is
\* gone, no other row is touched, a second call changes nothing
DeleteStoreLaw(u) ==
  /\ AfterDelete(u).sessions = {r \in sessions : r.user_id # u}
  /\ dbGetSession(sessions, u) = {} => AfterDelete(u).sessions = sessions
  /\ AfterDeleteTwice(u).sessions = AfterDelete(u).sessions

C33_ConfirmationDraftComplete ==
  \A r \in sessions :
    r.state = "AWAITING_CONFIRMATION" => CollectedFields \subseteq DOMAIN r.ticket_data

\* C34: a confirm:yes handled while the session is in a state other than
\* AWAITING_CONFIRMATION writes no ticket record and makes no call to the
\* tracker.
C34_ConfirmOnlyWhenAwaited ==
  [][ (last'.kind = "confirm:yes" /\ last'.pre # "AWAITING_CONFIRMATION")
      => /\ ticket_requests' = ticket_requests
         /\ last'.calls = <<>> ]_vars

\* C35: the number of tickets a user has created since the last counter
\* reset never exceeds the daily maximum, whatever events the user sends.
C35_WithinDailyMaximum ==
  \A u \in Users :
    /\ getUserTicketsToday(users, u) <= maxTicketsPerDay
    /\ Cardinality({r \in ticket_requests :
                      r.telegram_user_id = u /\ r.status = "created"}) <= maxTicketsPerDay

\* C36: no two ticket records created within 30 days of each other have
\* the same title.
C36_NoDuplicateTitles ==
  \A r, q \in ticket_requests :
    ( /\ r.id # q.id
      /\ r.title = q.title
      /\ r.created_at <= q.created_at )
    => q.created_at - r.created_at > dayLimit * SecondsPerDay

\* what a new creation flow of user u leaves when the title is typed:
\* /start, a category, then the text
RetryTitle(u, title) ==
  handleMessage(
    handleCallback(handleStart(World, u), u, "category", "Bug", FALSE, "ok", FALSE),
    u, title, FALSE)

\* C37: when the only records with a title are those of the user's own
\* confirms whose tracker call failed, the user can start a new flow and the
\* title is accepted at the title step.
C37_RetryAfterFailure ==
  \A u \in Users : \A r \in ticket_requests :
    ( /\ r.telegram_user_id = u
      /\ \A q \in ticket_requests :
           q.title = r.title => q.telegram_user_id = u /\ q.status # "created" )
    => RetryTitle(u, r.title).reply = "title_saved"

\* C38: when the handlers of two confirm:yes events of one user for one
\* draft overlap, at most one ticket record is written, at most one issue
\* is created in the tracker, and the daily counter rises by at most 1.
C38_DoubleConfirmOnce ==
  \A u \in Users :
    /\ Cardinality({r \in ticket_requests : r.telegram_user_id = u}) <= 1
    /\ Cardinality(linearIssues) <= 1
    /\ getUserTicketsToday(users, u) <= 1

\* the worlds left by a confirm:yes of user u that the tracker answers with
\* a new issue, when no session write fails and when the n-th fails
ConfirmedWorlds(u) ==
  LET left == {handleCallback([World EXCEPT !.failWrite = n], u, "confirm", "yes",
                              TRUE, "ok", FALSE) : n \in 0..MaxFailedWrite}
  IN {w \in left : w.linear # linearIssues}

\* C39: whenever the tracker has created the issue of a confirm, the ticket
\* record has status 'created' with the issue's id and url, the user's
\* daily counter includes the ticket, and the user is not told that the
\* creation failed; also when a storage write after the tracker's answer
\* fails.
C39_CreatedIsRecorded ==
  \A u \in Users : \A w \in ConfirmedWorlds(u) :
    /\ \E r \in w.tickets \ ticket_requests :
         /\ r.status = "created"
         /\ r.linear_ticket_id = {linearTicketId(w)}
         /\ r.linear_ticket_url = {linearTicketUrl(w)}
    /\ getUserTicketsToday(w.users, u) = getUserTicketsToday(users, u) + 1
    /\ w.reply # "create_failed"

\* C40: /start is accepted in every session state and without a session:
\* it answers with the welcome menu and leaves the user exactly one
\* session, IDLE, with an empty draft and both timestamps the time of the
\* command.  So from every reachable state one /start brings the user back
\* to IDLE.
C40_StartAlwaysResets ==
  \A u \in Users :
    LET w == handleStart(World, u)
    IN /\ ~w.thrown
       /\ w.reply = "welcome"
       /\ {r \in w.sessions : r.user_id = u} =
            {[user_id |-> u, state |-> "IDLE", ticket_data |-> EmptyData,
              last_activity |-> now, created_at |-> now]}

\* /start has been sent in the middle of a creation flow, some time after
\* the session was created
C40_Witness ==
  /\ last.kind = "start"
  /\ last.pre \in CreationStates
  /\ now > 0
  /\ \A u \in Users : StateOf(u) = "IDLE" /\ DraftOf(u) = EmptyData
====
